---- MODULE Spec2Model ----
(***************************************************************************)
(* A model of cacheref (timabilov/refcache): the EntityCache wrapper, its  *)
(* write path with the reverse entity index, entity invalidation, and the  *)
(* two reference backends (MemoryBackend and RedisBackend over a Redis     *)
(* client).  Time is an integer clock of seconds.                          *)
(***************************************************************************)
EXTENDS Integers, Sequences, FiniteSets, TLC

VARIABLES
    cfg,     \* the EntityCache configuration: backend kind, debug, fail_on_missing_id, fault injection
    now,     \* time.time() / the Redis server clock, in seconds
    store,   \* the backend's dictionaries: data, sets, expires
    th,      \* per thread: the position inside wrapper / invalidate_entity and its locals
    memo,    \* observer: when the underlying function was last computed for a call signature
    ops      \* the number of operations (calls, invalidations, clock steps) started so far

vars == <<cfg, now, store, th, memo, ops>>

----------------------------------------------------------------------------
(* Bounds of the model *)

\* The clock stops advancing here.
MaxNow == 400

\* The number of operations (calls, invalidations, clock steps) of a run.
MaxOps == 4

(* Program constants *)

DEFAULT_TTL == 300

reverse_index_ttl_gap == 300

\* The TTL results Redis gives for a missing key and for a key without expiry.
TTL_ABSENT == 0 - 2

TTL_NO_EXPIRY == 0 - 1

Threads == {1, 2}

\* The argument values (user ids) the wrapped functions are called with.
Args == {1, 2}

\* The amounts by which the clock advances between operations.
TickSteps == {5, 90, 300}

----------------------------------------------------------------------------
(* Values: entity ids, results, serialized bytes *)

\* str(n) for the integers the model uses.
IntStr(n) ==
    CASE n = 0 -> "0" [] n = 1 -> "1" [] n = 2 -> "2" [] n = 3 -> "3"
      [] n = 4 -> "4" [] n = 5 -> "5" [] n = 6 -> "6" [] n = 7 -> "7"
      [] n = 8 -> "8" [] n = 9 -> "9" [] OTHER -> "n"

\* An id value carries its Python type and its str() form.
IntId(n) == [ty |-> "int", v |-> IntStr(n)]

NoneId == [ty |-> "none", v |-> "None"]

ListId == [ty |-> "list", v |-> "[1, 2, 3]"]

\* A composite id: a tuple of scalar ids.
TupleId(parts) == [ty |-> "tuple", v |-> "(...)", parts |-> parts]

\* supported_id_types default of EntityCache.__call__: (str, int, UUID).
SupportedIdTypes == {"str", "int", "uuid"}

\* Results of the underlying functions: a number, a dict with an "id" entry,
\* a list of such dicts, or None.
IntResult(n) == [shape |-> "int", items |-> <<>>, n |-> n]

DictResult(id) == [shape |-> "dict", items |-> <<[id |-> id]>>, n |-> 0]

ListResult(ids) == [shape |-> "list", items |-> [i \in 1..Len(ids) |-> [id |-> ids[i]]], n |-> 0]

NoneResult == [shape |-> "none", items |-> <<>>, n |-> 0]

\* Python truthiness of a result (`if entity and fn_result`).
TruthyAlways(r) == TRUE

Truthy(r) ==
    CASE r.shape = "int"  -> r.n # 0
      [] r.shape = "dict" -> Len(r.items) > 0
      [] r.shape = "list" -> Len(r.items) > 0
      [] OTHER            -> FALSE

\* The serializer produces a non-empty byte string that wraps the value; the
\* deserializer unwraps it.
Serialize(r) == <<"bytes", r>>

Deserialize(b) == b[2]

\* Bytes no deserializer can read, and the deserializers' answer to them.
Garbage == <<"garbage">>

DeserializeRaises(b) == b[1] # "bytes"

\* `if cached:` -- a non-empty byte string.
BytesTruthy(b) == Len(b) > 0

NoBytes == <<>>

----------------------------------------------------------------------------
(* The wrapped functions of the model and their decorator arguments *)

\* An extractor rule: a field name, or a callable reading that field.
StrRule(name) == [kind |-> "str", name |-> name]

CallableRule(name) == [kind |-> "callable", name |-> name]

DefaultIdKey == <<StrRule("id")>>

\* name: module.qualname; entity: "" when the decorator has no entity;
\* ttl: 0 when the decorator has no ttl; body: what the underlying function does.
\* normalize: normalize_args; params: the parameter names of the signature.
\* id_key: the extractor rules, by default the one field name 'id'.
Fn(name, entity, ttl, body) ==
    [name |-> name, entity |-> entity, ttl |-> ttl, body |-> body,
     scope |-> "function", cache_key |-> "", normalize |-> FALSE,
     params |-> <<"user_id">>, id_key |-> DefaultIdKey]

F_add == Fn("tests.add", "", 0, "sum")

F_get10 == Fn("tests.get_user_10", "user", 10, "user")

F_get90 == Fn("tests.get_user_90", "user", 90, "user")

F_get5 == Fn("tests.get_user_5", "user", 5, "user")

F_users == Fn("tests.get_users", "user", 0, "users")

F_noid == Fn("tests.get_noid", "user", 0, "noid")

F_badid == Fn("tests.get_badid", "user", 0, "badid")

F_raise == Fn("tests.get_raise", "user", 0, "raise")

\* A function returning ORM rows with the composite primary key
\* (order_id, product_id): the id_key is the list of the key's columns.
F_items ==
    [Fn("tests.get_order_items", "orderitem", 0, "items") EXCEPT
        !.id_key = <<StrRule("order_id"), StrRule("product_id")>>]

\* Entity-tracked functions with falsy results: None, 0, [] and {}.
F_none == Fn("tests.find_user", "user", 0, "none")

F_zero == Fn("tests.count_users", "user", 10, "zero")

F_empty == Fn("tests.list_users", "user", 0, "empty_list")

F_nodict == Fn("tests.user_info", "user", 0, "empty_dict")

FalsyFuncs == {F_none, F_zero, F_empty, F_nodict}

Funcs == {F_add, F_get10, F_get90, F_get5, F_users, F_noid, F_badid, F_raise}

\* Functions that differ in how their key is built: a custom cache_key, a
\* cache_key that extends another one by a ':' segment, scope='entity' under
\* two names, and normalize_args=True.
F_ck == [Fn("tests.get_summary", "", 0, "sum") EXCEPT !.cache_key = "user"]

F_ck2 == [Fn("tests.get_profile", "", 0, "sum") EXCEPT !.cache_key = "user:profile"]

F_scopeA == [Fn("tests.get_user_a", "user", 0, "user") EXCEPT !.scope = "entity"]

F_scopeB == [Fn("tests.get_user_b", "user", 0, "user") EXCEPT !.scope = "entity"]

F_norm == [Fn("tests.get_norm", "", 0, "sum") EXCEPT !.normalize = TRUE]

\* A second function of scope 'entity' on the entity type of F_scopeA: for
\* the same argument its result is another entity (user 2 for 1, 1 for 2).
F_manager == [Fn("tests.get_manager", "user", 0, "other") EXCEPT !.scope = "entity"]

\* Functions that differ in their signature: two named parameters, a method
\* (leading self), and a function taking *args; with normalize_args on or off.
F_xy == [Fn("tests.f_xy", "", 0, "sum") EXCEPT !.normalize = TRUE, !.params = <<"x", "y">>]

F_xy_raw == [Fn("tests.f_xy_raw", "", 0, "sum") EXCEPT !.params = <<"x", "y">>]

F_method ==
    [Fn("tests.A.m", "", 0, "sum") EXCEPT !.normalize = TRUE, !.params = <<"self", "x", "y">>]

F_method_raw == [Fn("tests.A.m_raw", "", 0, "sum") EXCEPT !.params = <<"self", "x", "y">>]

F_var == [Fn("tests.v", "", 0, "sum") EXCEPT !.normalize = TRUE, !.params = <<"args">>]

ShapeFuncs == {F_xy, F_xy_raw, F_method, F_method_raw, F_var}

KeyFuncs == {F_ck, F_ck2, F_scopeA, F_scopeB, F_norm}

AllFuncs == Funcs \cup KeyFuncs \cup {F_items, F_manager} \cup FalsyFuncs

NoFunc == Fn("", "", 0, "")

\* Whether the underlying function raises, and what it returns otherwise.
Raises(f) == f.body = "raise"

Body(f, a) ==
    CASE f.body = "sum"   -> IntResult(a + 1)
      [] f.body = "user"  -> DictResult(IntId(a))
      [] f.body = "other" -> DictResult(IntId(3 - a))
      [] f.body = "users" -> ListResult(<<IntId(1), IntId(2)>>)
      [] f.body = "noid"  -> DictResult(NoneId)
      [] f.body = "badid" -> ListResult(<<ListId, IntId(2)>>)
      [] f.body = "items" ->
            [shape |-> "list", n |-> 0,
             items |-> <<[order_id |-> IntId(a), product_id |-> IntId(1)],
                         [order_id |-> IntId(a), product_id |-> IntId(2)]>>]
      [] f.body = "zero" -> IntResult(0)
      [] f.body = "empty_list" -> ListResult(<<>>)
      [] f.body = "empty_dict" -> [shape |-> "dict", items |-> <<>>, n |-> 0]
      [] f.body = "user_by" -> [shape |-> "dict", items |-> <<[user_id |-> IntId(a)]>>, n |-> 0]
      [] OTHER            -> NoneResult

\* The instance TTL (locked_ttl); 0 stands for None.
LockedTtl == cfg.locked_ttl

\* A TTL that ignores the instance TTL.
EffectiveTtlNoInstance(f) == IF f.ttl # 0 THEN f.ttl ELSE DEFAULT_TTL

EffectiveTtl(f) ==
    LET t1 == IF f.ttl # 0 THEN f.ttl ELSE LockedTtl
    IN  IF t1 = 0 THEN DEFAULT_TTL ELSE t1

----------------------------------------------------------------------------
(* Key construction *)

\* Argument values: k is the Python type, n an int, s a str, items the
\* elements in iteration order (for a dict: key, value, key, value, ...).
IntV(n) == [k |-> "int", n |-> n, s |-> "", items |-> <<>>]

StrV(x) == [k |-> "str", n |-> 0, s |-> x, items |-> <<>>]

ListV(items) == [k |-> "list", n |-> 0, s |-> "", items |-> items]

TupleV(items) == [k |-> "tuple", n |-> 0, s |-> "", items |-> items]

SetV(items) == [k |-> "set", n |-> 0, s |-> "", items |-> items]

DictV(items) == [k |-> "dict", n |-> 0, s |-> "", items |-> items]

\* The receiver of a method call; its repr names the object.
ObjV(x) == [k |-> "object", n |-> 0, s |-> x, items |-> <<>>]

\* The order of the strings the model uses (names and str values).
StrRank(x) ==
    CASE x = "a" -> 1 [] x = "args" -> 2 [] x = "b" -> 3 [] x = "user_id" -> 4
      [] x = "x" -> 5 [] x = "y" -> 6 [] OTHER -> 7

\* The first position at which two sequences differ, 0 when one is a prefix
\* of the other.
FirstDiff(x, y) ==
    LET ds == {i \in 1..Len(x) : i <= Len(y) /\ x[i] # y[i]}
    IN  IF ds = {} THEN 0 ELSE CHOOSE i \in ds : \A j \in ds : i <= j

\* Python's < on two values: defined for int with int and str with str; two
\* lists or two tuples compare by their first differing elements (by length
\* when there is none); anything else raises TypeError.
RECURSIVE PyComparable(_, _)
PyComparable(v, w) ==
    /\ v.k = w.k
    /\ \/ v.k \in {"int", "str"}
       \/ /\ v.k \in {"list", "tuple"}
          /\ \/ FirstDiff(v.items, w.items) = 0
             \/ PyComparable(v.items[FirstDiff(v.items, w.items)],
                             w.items[FirstDiff(v.items, w.items)])

RECURSIVE PyLess(_, _)
PyLess(v, w) ==
    IF v.k = "int" THEN v.n < w.n
    ELSE IF v.k = "str" THEN StrRank(v.s) < StrRank(w.s)
    ELSE IF FirstDiff(v.items, w.items) = 0 THEN Len(v.items) < Len(w.items)
    ELSE PyLess(v.items[FirstDiff(v.items, w.items)], w.items[FirstDiff(v.items, w.items)])

\* sorted(items): a TypeError when two elements do not compare.
AllComparable(items) ==
    \A i \in 1..Len(items) : \A j \in 1..Len(items) : PyComparable(items[i], items[j])

RECURSIVE Insert(_, _)
Insert(x, sorted) ==
    IF sorted = <<>> THEN <<x>>
    ELSE IF PyLess(x, Head(sorted)) THEN <<x>> \o sorted
    ELSE <<Head(sorted)>> \o Insert(x, Tail(sorted))

RECURSIVE Sorted(_)
Sorted(items) ==
    IF items = <<>> THEN <<>> ELSE Insert(Head(items), Sorted(Tail(items)))

\* The (key, value) pairs of a dict's items, and a dict from pairs.
PairsOf(items) == [i \in 1..(Len(items) \div 2) |-> <<items[2 * i - 1], items[2 * i]>>]

RECURSIVE Flatten(_)
Flatten(pairs) ==
    IF pairs = <<>> THEN <<>>
    ELSE <<Head(pairs)[1], Head(pairs)[2]>> \o Flatten(Tail(pairs))

\* sorted(d.items()): by key; the keys of a dict are distinct.
RECURSIVE InsertPair(_, _)
InsertPair(x, sorted) ==
    IF sorted = <<>> THEN <<x>>
    ELSE IF PyLess(x[1], Head(sorted)[1]) THEN <<x>> \o sorted
    ELSE <<Head(sorted)>> \o InsertPair(x, Tail(sorted))

RECURSIVE SortedPairs(_)
SortedPairs(pairs) ==
    IF pairs = <<>> THEN <<>> ELSE InsertPair(Head(pairs), SortedPairs(Tail(pairs)))

\* _normalize_value, lines 642-667: a list, tuple or set becomes the sorted
\* list of its elements when they compare (else the list and tuple stay as
\* they are and the set becomes a list in iteration order); a dict is rebuilt
\* in key order with normalized values; anything else is itself.
RECURSIVE NormalizeValue(_)
NormalizeValue(v) ==
    CASE v.k = "list"  -> IF AllComparable(v.items) THEN ListV(Sorted(v.items)) ELSE v
      [] v.k = "tuple" -> IF AllComparable(v.items) THEN ListV(Sorted(v.items)) ELSE v
      [] v.k = "set"   -> IF AllComparable(v.items) THEN ListV(Sorted(v.items))
                          ELSE ListV(v.items)
      [] v.k = "dict"  ->
            LET ps == SortedPairs(PairsOf(v.items))
            IN  DictV(Flatten([i \in 1..Len(ps) |-> <<ps[i][1], NormalizeValue(ps[i][2])>>]))
      [] OTHER         -> v

\* repr(v), as str() of a container prints its elements.
RECURSIVE Repr(_)
RECURSIVE JoinRepr(_, _)
JoinRepr(items, i) ==
    IF i > Len(items) THEN ""
    ELSE Repr(items[i]) \o (IF i < Len(items) THEN ", " ELSE "") \o JoinRepr(items, i + 1)

RECURSIVE JoinPairs(_, _)
JoinPairs(items, i) ==
    IF i > Len(items) THEN ""
    ELSE Repr(items[i]) \o ": " \o Repr(items[i + 1])
         \o (IF i + 1 < Len(items) THEN ", " ELSE "") \o JoinPairs(items, i + 2)

Repr(v) ==
    CASE v.k = "int"    -> IntStr(v.n)
      [] v.k = "str"    -> "'" \o v.s \o "'"
      [] v.k = "list"   -> "[" \o JoinRepr(v.items, 1) \o "]"
      [] v.k = "tuple"  -> "(" \o JoinRepr(v.items, 1)
                               \o (IF Len(v.items) = 1 THEN "," ELSE "") \o ")"
      [] v.k = "set"    -> IF v.items = <<>> THEN "set()"
                           ELSE "{" \o JoinRepr(v.items, 1) \o "}"
      [] v.k = "dict"   -> "{" \o JoinPairs(v.items, 1) \o "}"
      [] OTHER          -> "<" \o v.s \o ">"

\* A keyword argument name=val.
Kw(name, val) == [name |-> name, val |-> val]

\* dict assignment processed_kwargs[name] = val.
RECURSIVE KwPut(_, _, _)
KwPut(kwargs, name, val) ==
    IF kwargs = <<>> THEN <<Kw(name, val)>>
    ELSE IF Head(kwargs).name = name THEN <<Kw(name, val)>> \o Tail(kwargs)
    ELSE <<Head(kwargs)>> \o KwPut(Tail(kwargs), name, val)

\* sorted(kwargs.items()): by name.
RECURSIVE InsertKw(_, _)
InsertKw(x, sorted) ==
    IF sorted = <<>> THEN <<x>>
    ELSE IF StrRank(x.name) < StrRank(Head(sorted).name) THEN <<x>> \o sorted
    ELSE <<Head(sorted)>> \o InsertKw(x, Tail(sorted))

RECURSIVE SortedKw(_)
SortedKw(kwargs) ==
    IF kwargs = <<>> THEN <<>> ELSE InsertKw(Head(kwargs), SortedKw(Tail(kwargs)))

\* Lines 597-602: the parameters of the signature, without a leading self/cls.
Parameters(f) ==
    IF f.params # <<>> /\ Head(f.params) \in {"self", "cls"} THEN Tail(f.params) ELSE f.params

\* Lines 610-613: each positional argument that has a parameter at its
\* position is stored under that parameter's name.
RECURSIVE BindPositional(_, _, _, _)
BindPositional(parameters, args, kwargs, i) ==
    IF i > Len(args) THEN kwargs
    ELSE BindPositional(parameters, args,
                        IF i <= Len(parameters) THEN KwPut(kwargs, parameters[i], args[i])
                        ELSE kwargs,
                        i + 1)

\* _normalize_params, lines 578-629.
NormalizeParams(f, args, kwargs) ==
    IF ~f.normalize THEN [args |-> args, kwargs |-> kwargs]
    ELSE LET bound == SortedKw(BindPositional(Parameters(f), args, kwargs, 1))
         IN  [args |-> <<>>,
              kwargs |-> [i \in 1..Len(bound) |->
                            Kw(bound[i].name, NormalizeValue(bound[i].val))]]

\* Line 665: sorted(value.items()) raises TypeError when two keys of a dict
\* do not compare, also in a dict nested as a value; nothing catches it.
RECURSIVE NormalizeRaises(_)
NormalizeRaises(v) ==
    /\ v.k = "dict"
    /\ LET ps == PairsOf(v.items)
       IN  \/ ~AllComparable([i \in 1..Len(ps) |-> ps[i][1]])
           \/ \E i \in 1..Len(ps) : NormalizeRaises(ps[i][2])

\* Whether _normalize_params raises for the call f(*args, **kwargs).
NormalizeParamsRaises(f, args, kwargs) ==
    /\ f.normalize
    /\ LET bound == BindPositional(Parameters(f), args, kwargs, 1)
       IN  \E i \in 1..Len(bound) : NormalizeRaises(bound[i].val)

\* Lines 724-726: str(args) and str(sorted(kwargs.items())), each empty for
\* an empty collection.
ParamsStr(args, kwargs) ==
    LET kw == SortedKw(kwargs)
    IN  (IF args = <<>> THEN "" ELSE Repr(TupleV(args)))
        \o (IF kw = <<>> THEN ""
            ELSE Repr(ListV([i \in 1..Len(kw) |-> TupleV(<<StrV(kw[i].name), kw[i].val>>)])))

\* Lines 729-732: the digest of the parameter string, "noargs" when it is
\* empty.  The digest is taken as injective, so the string stands for it.
HashOf(args, kwargs) ==
    LET params_str == ParamsStr(args, kwargs)
    IN  IF params_str = "" THEN "noargs" ELSE "md5" \o params_str

\* _generate_key for the call f(a) with one positional int.
ParamsHash(a) == HashOf(<<IntV(a)>>, <<>>)

Prefix(f) ==
    IF f.cache_key # "" THEN f.cache_key
    ELSE IF f.scope = "entity" /\ f.entity # "" THEN "entity:" \o f.entity
    ELSE f.name

\* A key that leaves the arguments out.
ConstructKeyNoArgs(f, a) == <<"cache", Prefix(f), "noargs">>

\* The key cache:{prefix}:{hash} as its three components, as the wrapper
\* builds it for the call f(a): from the parameters _normalize_params returns.
ConstructKey(f, a) ==
    LET p == NormalizeParams(f, <<IntV(a)>>, <<>>)
    IN  <<"cache", Prefix(f), HashOf(p.args, p.kwargs)>>

\* A call f(*args, **kwargs): the positional arguments as the wrapper receives
\* them (the receiver first for a method) and the keywords in call order.
CallOf(args, kwargs) == [args |-> args, kwargs |-> kwargs]

NoCall == CallOf(<<>>, <<>>)

\* wrapper lines 293-297: the key for the call c of f.
WrapperKey(f, c) ==
    LET p == NormalizeParams(f, c.args, c.kwargs)
    IN  <<"cache", Prefix(f), HashOf(p.args, p.kwargs)>>

\* get_cache_key(f, a), lines 979-986: construct_key on the wrapper with the
\* arguments as they were passed.
GetCacheKey(f, a) == <<"cache", Prefix(f), HashOf(<<IntV(a)>>, <<>>)>>

\* The ':'-separated segments of the prefixes the model uses.
Segments(p) ==
    CASE p = "user:profile" -> <<"user", "profile">>
      [] p = "entity:user"  -> <<"entity", "user">>
      [] OTHER              -> <<p>>

\* Whether the string p starts with n followed by ':'.
StartsWithSegments(p, n) ==
    /\ Len(Segments(n)) < Len(Segments(p))
    /\ SubSeq(Segments(p), 1, Len(Segments(n))) = Segments(n)

\* A glob pattern: "*", or cache:{name}:*.
AllPattern == [all |-> TRUE, name |-> ""]

FuncPattern(name) == [all |-> FALSE, name |-> name]

\* fnmatch / KEYS: the key cache:{prefix}:{hash} matches cache:{name}:* when
\* it starts with cache:{name}: (the hash holds no ':').
Matches(pat, key) ==
    \/ pat.all
    \/ /\ key[1] = "cache"
       /\ key[2] = pat.name \/ StartsWithSegments(key[2], pat.name)

\* An index key that leaves the id out.
KeyifyEntityIdConst(id) == "id"

\* "-".join(str(id_) for id_ in entity_id)
RECURSIVE JoinDash(_, _)
JoinDash(parts, i) ==
    IF i > Len(parts) THEN ""
    ELSE IF i = Len(parts) THEN parts[i].v
    ELSE parts[i].v \o "-" \o JoinDash(parts, i + 1)

\* _keyify_entity_id: str(id) for a scalar id, the parts joined by '-' for a
\* list or tuple.
KeyifyEntityId(id) == IF id.ty = "tuple" THEN JoinDash(id.parts, 1) ELSE id.v

\* The index key entity:{type}:{id}.
EntityKey(entity, id) == <<"entity", entity, KeyifyEntityId(id)>>

----------------------------------------------------------------------------
(* Entity-id extraction (idextractor.py), for the default id_key 'id' *)

\* The items per-item extraction is applied to: the elements of a list, else
\* the result itself.  A dict answers item.get('id'); a flat value without an
\* 'id' attribute is its own id.
ItemsOf(r) ==
    CASE r.shape = "list" -> r.items
      [] r.shape = "dict" -> IF Len(r.items) > 0 THEN r.items ELSE <<[id |-> NoneId]>>
      [] r.shape = "int"  -> <<[id |-> IntId(r.n)]>>
      [] OTHER            -> <<[id |-> NoneId]>>

ParseItemId(item) == item.id

\* An extractor that accepts an id of any type.
FirstResultAnyType(item, strict) ==
    LET x == ParseItemId(item)
    IN  IF x = NoneId
        THEN [err |-> strict, has |-> FALSE, id |-> x]
        ELSE [err |-> FALSE, has |-> TRUE, id |-> x]

\* _first_result_from_extractors with the one extractor 'id': a None id raises
\* when fail_on_missing_id, else the item has no id; an id of an unsupported
\* type always raises.
FirstResultFromExtractors(item, strict) ==
    LET x == ParseItemId(item)
    IN  IF x = NoneId
        THEN [err |-> strict, has |-> FALSE, id |-> x]
        ELSE IF x.ty \in SupportedIdTypes
             THEN [err |-> FALSE, has |-> TRUE, id |-> x]
             ELSE [err |-> TRUE, has |-> FALSE, id |-> x]

\* _parse_item_id, lines 91-112, on a dict item: a field name answers
\* item.get(name), None when the field is absent; the callable
\* lambda item: item[name] raises on an absent field, which line 97 turns
\* into an IdExtractorError.
ParseItemIdBy(item, rule) ==
    IF rule.name \in DOMAIN item THEN [raised |-> FALSE, id |-> item[rule.name]]
    ELSE [raised |-> rule.kind = "callable", id |-> NoneId]

\* Rules tried from the last to the first.
RECURSIVE FirstResultLastRuleFirst(_, _, _, _)
FirstResultLastRuleFirst(item, rules, strict, i) ==
    LET j == Len(rules) + 1 - i
    IN  IF i > Len(rules) THEN [err |-> strict, has |-> FALSE, id |-> NoneId]
        ELSE LET p == ParseItemIdBy(item, rules[j])
             IN  IF p.raised THEN FirstResultLastRuleFirst(item, rules, strict, i + 1)
                 ELSE IF p.id = NoneId
                 THEN IF strict THEN [err |-> TRUE, has |-> FALSE, id |-> NoneId]
                      ELSE FirstResultLastRuleFirst(item, rules, strict, i + 1)
                 ELSE IF p.id.ty \in SupportedIdTypes
                 THEN [err |-> FALSE, has |-> TRUE, id |-> p.id]
                 ELSE [err |-> TRUE, has |-> FALSE, id |-> p.id]

\* Rules that accept an id of any type.
RECURSIVE FirstResultRulesAnyType(_, _, _, _)
FirstResultRulesAnyType(item, rules, strict, i) ==
    IF i > Len(rules) THEN [err |-> strict, has |-> FALSE, id |-> NoneId]
    ELSE LET p == ParseItemIdBy(item, rules[i])
         IN  IF p.raised THEN FirstResultRulesAnyType(item, rules, strict, i + 1)
             ELSE IF p.id = NoneId
             THEN IF strict THEN [err |-> TRUE, has |-> FALSE, id |-> NoneId]
                  ELSE FirstResultRulesAnyType(item, rules, strict, i + 1)
             ELSE [err |-> FALSE, has |-> TRUE, id |-> p.id]

\* Rules for which a None id never fails the extraction.
RECURSIVE FirstResultRulesLenient(_, _, _, _)
FirstResultRulesLenient(item, rules, strict, i) ==
    IF i > Len(rules) THEN [err |-> FALSE, has |-> FALSE, id |-> NoneId]
    ELSE LET p == ParseItemIdBy(item, rules[i])
         IN  IF p.raised \/ p.id = NoneId
             THEN FirstResultRulesLenient(item, rules, strict, i + 1)
             ELSE IF p.id.ty \in SupportedIdTypes
             THEN [err |-> FALSE, has |-> TRUE, id |-> p.id]
             ELSE [err |-> TRUE, has |-> FALSE, id |-> p.id]

\* _first_result_from_extractors, lines 114-147, from rule i on: a rule that
\* raised IdExtractorError is skipped (line 140); a None id raises when
\* fail_on_missing_id and else moves on to the next rule; an id of a
\* supported type is returned; an id of another type raises.  After the last
\* rule: an error when fail_on_missing_id, else no id.
RECURSIVE FirstResultFromRules(_, _, _, _)
FirstResultFromRules(item, rules, strict, i) ==
    IF i > Len(rules) THEN [err |-> strict, has |-> FALSE, id |-> NoneId]
    ELSE LET p == ParseItemIdBy(item, rules[i])
         IN  IF p.raised THEN FirstResultFromRules(item, rules, strict, i + 1)
             ELSE IF p.id = NoneId
             THEN IF strict THEN [err |-> TRUE, has |-> FALSE, id |-> NoneId]
                  ELSE FirstResultFromRules(item, rules, strict, i + 1)
             ELSE IF p.id.ty \in SupportedIdTypes
             THEN [err |-> FALSE, has |-> TRUE, id |-> p.id]
             ELSE [err |-> TRUE, has |-> FALSE, id |-> p.id]

\* extract_entity_ids, lines 49-89, for a rule list: every item of a list,
\* else the result itself; any error of an item fails the whole extraction.
ExtractEntityIdsBy(r, rules, strict) ==
    LET items == ItemsOf(r)
        rs    == [i \in 1..Len(items) |-> FirstResultFromRules(items[i], rules, strict, 1)]
        err   == \E i \in 1..Len(items) : rs[i].err
    IN  [err |-> err,
         ids |-> IF err THEN {} ELSE {rs[i].id : i \in {j \in 1..Len(items) : rs[j].has}}]

\* extract_entity_ids: err when IdExtractorError is raised, else the id set.
ExtractEntityIds(r, strict) ==
    LET items == ItemsOf(r)
        rs    == [i \in 1..Len(items) |-> FirstResultFromExtractors(items[i], strict)]
        err   == \E i \in 1..Len(items) : rs[i].err
    IN  [err |-> err,
         ids |-> IF err THEN {} ELSE {rs[i].id : i \in {j \in 1..Len(items) : rs[j].has}}]

\* The extraction of a cached function: by its id_key.
ExtractFor(f, r, strict) ==
    IF f.id_key = DefaultIdKey THEN ExtractEntityIds(r, strict)
    ELSE ExtractEntityIdsBy(r, f.id_key, strict)

----------------------------------------------------------------------------
(* Python dictionaries *)

EmptyDict == [x \in {} |-> 0]

Put(d, k, v) == [x \in (DOMAIN d) \cup {k} |-> IF x = k THEN v ELSE d[x]]

Del(d, k) == [x \in (DOMAIN d) \ {k} |-> d[x]]

EmptyStore == [data |-> EmptyDict, sets |-> EmptyDict, expires |-> EmptyDict]

\* A queued pipeline command: op(k, n, v) or op(k, m).
Cmd(op, k, n, v, m) == [op |-> op, k |-> k, n |-> n, v |-> v, m |-> m]

NoKey == <<"", "", "">>

\* The outcome of one backend command: the new store, its integer result, and
\* whether it raised.
Out(s, r, err) == [s |-> s, r |-> r, err |-> err]

----------------------------------------------------------------------------
(* MemoryBackend (backends/memory.py) *)

\* _check_expiry: evict the key if its expiry lies strictly in the past.
MemCheckExpiry(s, k, t) ==
    IF k \in DOMAIN s.expires /\ s.expires[k] < t
    THEN [data |-> Del(s.data, k), sets |-> Del(s.sets, k), expires |-> Del(s.expires, k)]
    ELSE s

MemGet(s, k, t) ==
    LET s1 == MemCheckExpiry(s, k, t)
    IN  [s |-> s1, hit |-> k \in DOMAIN s1.data,
         v |-> IF k \in DOMAIN s1.data THEN s1.data[k] ELSE NoBytes]

\* set(key, value, expire): the expiry is written only for a truthy expire.
MemSet(s, k, v, expire, t) ==
    [s EXCEPT !.data = Put(@, k, v),
              !.expires = IF expire # 0 THEN Put(@, k, t + expire) ELSE @]

MemSetex(s, k, expire, v, t) == MemSet(s, k, v, expire, t)

\* delete(key): counts the key only if it held a value.
MemDelete(s, k) ==
    Out([data |-> Del(s.data, k), sets |-> Del(s.sets, k), expires |-> Del(s.expires, k)],
        IF k \in DOMAIN s.data THEN 1 ELSE 0, FALSE)

MemSadd(s, k, m, t) ==
    LET s1  == MemCheckExpiry(s, k, t)
        old == IF k \in DOMAIN s1.sets THEN s1.sets[k] ELSE {}
    IN  Out([s1 EXCEPT !.sets = Put(@, k, old \cup {m})],
            IF m \in old THEN 0 ELSE 1, FALSE)

MemSmembers(s, k, t) ==
    LET s1 == MemCheckExpiry(s, k, t)
    IN  [s |-> s1, m |-> IF k \in DOMAIN s1.sets THEN s1.sets[k] ELSE {}]

\* expire(key, seconds): no expiry check; any key present in data or sets.
MemExpire(s, k, n, t) ==
    IF k \in DOMAIN s.data \/ k \in DOMAIN s.sets
    THEN Out([s EXCEPT !.expires = Put(@, k, t + n)], 1, FALSE)
    ELSE Out(s, 0, FALSE)

\* MemoryBackend defines no ttl(): the inherited CacheBackend.ttl raises
\* NotImplementedError.
MemTtl(s, k, t) == Out(s, 0, TRUE)

\* keys(pattern), lines 126-142: _check_expiry on every key of data, then the
\* keys of data that match; the keys of sets are not listed.
MemKeys(s, pat, t) ==
    LET dead == {k \in DOMAIN s.data : k \in DOMAIN s.expires /\ s.expires[k] < t}
        s1   == [data    |-> [k \in (DOMAIN s.data) \ dead |-> s.data[k]],
                 sets    |-> [k \in (DOMAIN s.sets) \ dead |-> s.sets[k]],
                 expires |-> [k \in (DOMAIN s.expires) \ dead |-> s.expires[k]]]
    IN  [s |-> s1, keys |-> {k \in DOMAIN s1.data : Matches(pat, k)}]

\* delete(*keys), lines 103-117: counts the keys that held a value.
MemDeleteMany(s, keys) ==
    Out([data    |-> [k \in (DOMAIN s.data) \ keys |-> s.data[k]],
         sets    |-> [k \in (DOMAIN s.sets) \ keys |-> s.sets[k]],
         expires |-> [k \in (DOMAIN s.expires) \ keys |-> s.expires[k]]],
        Cardinality(keys \cap DOMAIN s.data), FALSE)

----------------------------------------------------------------------------
(* RedisBackend (backends/redis.py) over a Redis server *)

\* The server drops every key whose expiry time has been reached.
RedisPurge(s, t) ==
    LET dead == {k \in DOMAIN s.expires : s.expires[k] <= t}
    IN  [data    |-> [k \in (DOMAIN s.data) \ dead |-> s.data[k]],
         sets    |-> [k \in (DOMAIN s.sets) \ dead |-> s.sets[k]],
         expires |-> [k \in (DOMAIN s.expires) \ dead |-> s.expires[k]]]

RedisGet(s, k, t) ==
    LET s1 == RedisPurge(s, t)
    IN  [s |-> s1, hit |-> k \in DOMAIN s1.data,
         v |-> IF k \in DOMAIN s1.data THEN s1.data[k] ELSE NoBytes]

\* SETEX replaces whatever the key held and sets its expiry.
RedisSetex(s, k, expire, v, t) ==
    LET s1 == RedisPurge(s, t)
    IN  [data |-> Put(s1.data, k, v), sets |-> Del(s1.sets, k),
         expires |-> Put(s1.expires, k, t + expire)]

\* DEL counts every existing key.
RedisDelete(s, k, t) ==
    LET s1 == RedisPurge(s, t)
    IN  Out([data |-> Del(s1.data, k), sets |-> Del(s1.sets, k), expires |-> Del(s1.expires, k)],
            IF k \in DOMAIN s1.data \/ k \in DOMAIN s1.sets THEN 1 ELSE 0, FALSE)

\* SADD creates the set (without expiry) when the key is missing.
RedisSadd(s, k, m, t) ==
    LET s1  == RedisPurge(s, t)
        old == IF k \in DOMAIN s1.sets THEN s1.sets[k] ELSE {}
    IN  Out([s1 EXCEPT !.sets = Put(@, k, old \cup {m})],
            IF m \in old THEN 0 ELSE 1, FALSE)

RedisSmembers(s, k, t) ==
    LET s1 == RedisPurge(s, t)
    IN  [s |-> s1, m |-> IF k \in DOMAIN s1.sets THEN s1.sets[k] ELSE {}]

\* EXPIRE on an existing key.
RedisExpire(s, k, n, t) ==
    LET s1 == RedisPurge(s, t)
    IN  IF k \in DOMAIN s1.data \/ k \in DOMAIN s1.sets
        THEN Out([s1 EXCEPT !.expires = Put(@, k, t + n)], 1, FALSE)
        ELSE Out(s1, 0, FALSE)

\* TTL: -2 for a missing key, -1 for a key without expiry, else the seconds left.
RedisTtl(s, k, t) ==
    LET s1 == RedisPurge(s, t)
    IN  IF ~(k \in DOMAIN s1.data \/ k \in DOMAIN s1.sets) THEN Out(s1, TTL_ABSENT, FALSE)
        ELSE IF k \notin DOMAIN s1.expires THEN Out(s1, TTL_NO_EXPIRY, FALSE)
        ELSE Out(s1, s1.expires[k] - t, FALSE)

\* KEYS pattern: every existing key, of whatever type, that matches.
RedisKeys(s, pat, t) ==
    LET s1 == RedisPurge(s, t)
    IN  [s |-> s1, keys |-> {k \in (DOMAIN s1.data) \cup (DOMAIN s1.sets) : Matches(pat, k)}]

\* DEL key [key ...]: counts the keys that existed.
RedisDeleteMany(s, keys, t) ==
    LET s1 == RedisPurge(s, t)
    IN  Out([data    |-> [k \in (DOMAIN s1.data) \ keys |-> s1.data[k]],
             sets    |-> [k \in (DOMAIN s1.sets) \ keys |-> s1.sets[k]],
             expires |-> [k \in (DOMAIN s1.expires) \ keys |-> s1.expires[k]]],
            Cardinality(keys \cap ((DOMAIN s1.data) \cup (DOMAIN s1.sets))), FALSE)

----------------------------------------------------------------------------
(* The backend the EntityCache was given *)

BackendGet(kind, s, k, t) == IF kind = "memory" THEN MemGet(s, k, t) ELSE RedisGet(s, k, t)

BackendSmembers(kind, s, k, t) ==
    IF kind = "memory" THEN MemSmembers(s, k, t) ELSE RedisSmembers(s, k, t)

BackendTtl(kind, s, k, t) == IF kind = "memory" THEN MemTtl(s, k, t) ELSE RedisTtl(s, k, t)

BackendKeys(kind, s, pat, t) ==
    IF kind = "memory" THEN MemKeys(s, pat, t) ELSE RedisKeys(s, pat, t)

BackendDeleteMany(kind, s, keys, t) ==
    IF kind = "memory" THEN MemDeleteMany(s, keys) ELSE RedisDeleteMany(s, keys, t)

\* One queued command run against the backend.
Apply(kind, s, c, t) ==
    CASE c.op = "setex" ->
            Out(IF kind = "memory" THEN MemSetex(s, c.k, c.n, c.v, t)
                ELSE RedisSetex(s, c.k, c.n, c.v, t), 1, FALSE)
      [] c.op = "sadd" ->
            IF kind = "memory" THEN MemSadd(s, c.k, c.m, t) ELSE RedisSadd(s, c.k, c.m, t)
      [] c.op = "expire" ->
            IF kind = "memory" THEN MemExpire(s, c.k, c.n, t) ELSE RedisExpire(s, c.k, c.n, t)
      [] c.op = "ttl" -> BackendTtl(kind, s, c.k, t)
      [] OTHER ->
            IF kind = "memory" THEN MemDelete(s, c.k) ELSE RedisDelete(s, c.k, t)

\* pipeline.execute(): the commands in order, collecting their results; a
\* command that raises ends the batch (cut is the number of commands that run
\* before an injected failure, Len(cmds) when none is injected).
RECURSIVE ExecFrom(_, _, _, _, _, _, _)
ExecFrom(kind, s, cmds, t, cut, i, rs) ==
    IF i > Len(cmds) THEN [s |-> s, rs |-> rs, err |-> FALSE]
    ELSE IF i > cut THEN [s |-> s, rs |-> rs, err |-> TRUE]
    ELSE LET o == Apply(kind, s, cmds[i], t)
         IN  IF o.err THEN [s |-> s, rs |-> rs, err |-> TRUE]
             ELSE ExecFrom(kind, o.s, cmds, t, cut, i + 1, Append(rs, o.r))

Execute(kind, s, cmds, t, cut) == ExecFrom(kind, s, cmds, t, cut, 1, <<>>)

\* Where an injected failure may cut a batch: MemoryPipeline runs the commands
\* one by one, a Redis MULTI/EXEC batch applies all or nothing.
FaultCuts(kind, cmds) == IF kind = "memory" THEN 0..(Len(cmds) - 1) ELSE {0}

----------------------------------------------------------------------------
(* EntityCache: the wrapper and _cache (cache.py) *)

\* What a wrapped call hands back to its caller.
Returned(v) == [out |-> "value", val |-> v]

Raised == [out |-> "raised", val |-> NoneResult]

\* wrapper, lines 307-322: a truthy cached value is deserialized and returned;
\* a miss, or any exception inside the try block (backend.get, or backend.ttl
\* for the debug log line), falls through to the function call.
AfterGet(hit, v, failed) ==
    IF hit /\ ~failed THEN [pc |-> "done"] @@ Returned(Deserialize(v))
    ELSE [pc |-> "miss", out |-> "none", val |-> NoneResult]

\* A wrapper that swallows the exception of the underlying function.
AfterFunctionSwallowed == [out |-> "value", val |-> NoneResult]

\* wrapper, line 325: an exception of the underlying function propagates.
AfterFunctionRaised == Raised

\* A write path that lets the exception of the batch escape.
AfterBatchRaising(res, err) == IF err THEN Raised ELSE Returned(res)

\* _cache, lines 567-571: whatever the backend batch did, the exception is
\* logged and the wrapper returns the computed result.
AfterBatch(res, err) == Returned(res)

\* _cache, lines 527-529 and 567-568: an IdExtractorError raised by
\* extract_entity_ids leaves the inner try block before any batch runs; it is
\* logged there and the wrapper returns the computed result.
AfterExtractionError(res) == Returned(res)

\* A rule that always resets the index expiry.
NeedsExpireAlways(current_ttl, effective_ttl) == TRUE

\* A rule that sets the index expiry only when the index has none.
NeedsExpireOnlyWhenUnset(current_ttl, effective_ttl) == current_ttl < 0

\* An invalidation that lets the backend exception escape.
AfterInvalidationRaising(n, err) ==
    [out |-> IF err THEN "raised" ELSE "value", count |-> IF err THEN 0 ELSE n]

\* invalidate_entity lines 802-808, invalidate_function lines 861-863,
\* invalidate_all lines 926-928: a backend exception is logged and the method
\* returns 0, else the count.
AfterInvalidation(n, err) == [out |-> "value", count |-> IF err THEN 0 ELSE n]

\* invalidate_key, lines 896-900: True (1), or False (0) after an exception.
AfterInvalidateKey(err) == [out |-> "value", count |-> IF err THEN 0 ELSE 1]

\* The TTL reconciliation rule, line 555.
NeedsExpire(current_ttl, effective_ttl) ==
    current_ttl < 0 \/ effective_ttl + reverse_index_ttl_gap > current_ttl

RECURSIVE SetToSeq(_)
SetToSeq(S) ==
    IF S = {} THEN <<>>
    ELSE LET x == CHOOSE y \in S : TRUE IN <<x>> \o SetToSeq(S \ {x})

\* The ttl_pipeline of lines 531-537: one TTL read per entity key.
TtlCmds(entity, idseq) ==
    [i \in 1..Len(idseq) |-> Cmd("ttl", EntityKey(entity, idseq[i]), 0, NoBytes, NoKey)]

\* Lines 544-557: per entity id, SADD the cache key to the index, then EXPIRE
\* the index when the rule asks for it.
RECURSIVE IndexCmds(_, _, _, _, _, _)
IndexCmds(entity, idseq, ttls, key, ttl, i) ==
    IF i > Len(idseq) THEN <<>>
    ELSE LET ek == EntityKey(entity, idseq[i])
         IN  <<Cmd("sadd", ek, 0, NoBytes, key)>>
             \o (IF NeedsExpire(ttls[i], ttl)
                 THEN <<Cmd("expire", ek, ttl + reverse_index_ttl_gap, NoBytes, NoKey)>>
                 ELSE <<>>)
             \o IndexCmds(entity, idseq, ttls, key, ttl, i + 1)

\* Line 517: the value write, queued first.
SetexCmd(f, a, res) ==
    Cmd("setex", ConstructKey(f, a), EffectiveTtl(f), Serialize(res), NoKey)

\* A write batch that queues the index commands before the value write.
WriteBatchIndexFirst(f, a, res, idseq, ttls) ==
    IndexCmds(f.entity, idseq, ttls, ConstructKey(f, a), EffectiveTtl(f), 1)
        \o <<SetexCmd(f, a, res)>>

\* _cache, lines 516-560: the commands queued on the pipeline, in order: the
\* value write, then the index commands of every extracted id.
WriteBatch(f, a, res, idseq, ttls) ==
    <<SetexCmd(f, a, res)>>
        \o IndexCmds(f.entity, idseq, ttls, ConstructKey(f, a), EffectiveTtl(f), 1)

\* A delete batch that leaves the index key in place.
DeleteCmdsMembersOnly(members, entity_key) ==
    LET ms == SetToSeq(members)
    IN  [i \in 1..Len(ms) |-> Cmd("delete", ms[i], 0, NoBytes, NoKey)]

\* invalidate_entity, lines 785-789: one DELETE per member, then the index key.
DeleteCmds(members, entity_key) ==
    LET ms == SetToSeq(members)
    IN  [i \in 1..Len(ms) |-> Cmd("delete", ms[i], 0, NoBytes, NoKey)]
        \o <<Cmd("delete", entity_key, 0, NoBytes, NoKey)>>

----------------------------------------------------------------------------
(* State *)

\* The instance TTL of the configurations that lock one.
InstanceTtl == 60

Configs == [backend : {"memory", "redis"}, debug : BOOLEAN,
            strict : BOOLEAN, faulty : BOOLEAN, locked_ttl : {0, InstanceTtl},
            enabled : BOOLEAN]

\* Line 291 and line 472: whether the instance caches at all.
EnabledAlways == TRUE

Enabled == cfg.enabled

\* The arguments each function of the model is called with.
ArgsOf(f) == IF f.body \in {"sum", "user"} /\ f.ttl # 5 THEN Args ELSE {1}

Sigs == {<<f.name, a>> : f \in AllFuncs, a \in Args}

\* Observer values of memo other than a time: never computed, computed but
\* the TTL has passed since, forgotten by an entity invalidation.
NEVER == 0 - 1

STALE == 0 - 2

INVALIDATED == 0 - 3

\* Forgotten by invalidate_func, by invalidate_func_call, by invalidate_all.
INVALIDATED_FUNC == 0 - 4

INVALIDATED_KEY == 0 - 5

INVALIDATED_ALL == 0 - 6

FnOf(name) == CHOOSE f \in AllFuncs : f.name = name

IdleTh ==
    [pc |-> "idle", op |-> "", f |-> NoFunc, a |-> 0, res |-> NoneResult,
     ids |-> {}, cmds |-> <<>>, invoked |-> FALSE, out |-> "none",
     val |-> NoneResult, gFail |-> FALSE, dErr |-> FALSE, tErr |-> FALSE,
     wFail |-> FALSE, xErr |-> FALSE, cErr |-> FALSE, expect |-> "", id |-> NoneId,
     members |-> {}, count |-> 0, call |-> NoCall, key |-> <<>>]

\* The entity type entity invalidation is called with, and its ids.
InvEntity == "user"

InvIds == {IntId(a) : a \in Args}

\* The ids a call signature's result refers to.
RefIds(f, a) ==
    IF Raises(f) THEN {}
    ELSE LET its == ItemsOf(Body(f, a))
         IN  IF f.id_key = DefaultIdKey THEN {its[i].id : i \in 1..Len(its)}
             ELSE {TupleId([k \in 1..Len(f.id_key) |-> its[i][f.id_key[k].name]]) :
                      i \in 1..Len(its)}

\* Observer: what the history says about a call that starts now.
Expect(f, a) ==
    LET m == memo[<<f.name, a>>]
    IN  CASE m = NEVER            -> "first"
          [] m = INVALIDATED      -> "invalidated"
          [] m = INVALIDATED_FUNC -> "invalidated_func"
          [] m = INVALIDATED_KEY  -> "invalidated_key"
          [] m = INVALIDATED_ALL  -> "invalidated_all"
          [] m = STALE            -> "stale"
          [] OTHER                -> IF now < m + EffectiveTtl(f) THEN "fresh"
                                     ELSE IF now = m + EffectiveTtl(f) THEN "expiring"
                                     ELSE "stale"

\* Observer: once the TTL has passed, only that fact is kept.
MemoAfterTick(t) ==
    [s \in Sigs |->
        IF memo[s] >= 0 /\ t > memo[s] + EffectiveTtl(FnOf(s[1])) THEN STALE ELSE memo[s]]

\* Observer: the call signatures for which a result has been computed and
\* handed to the write path by the call that just finished.
MemoAfterCall(f, a) == [memo EXCEPT ![<<f.name, a>>] = now]

\* Observer: an entity invalidation forgets every signature referring to the id.
MemoAfterInvalidate(entity, id) ==
    [s \in Sigs |->
        IF \E f \in AllFuncs : f.name = s[1] /\ f.entity = entity /\ id \in RefIds(f, s[2])
        THEN INVALIDATED ELSE memo[s]]

\* Observer: invalidate_func(f) forgets every signature of f.
MemoAfterInvalidateFunc(f) ==
    [s \in Sigs |-> IF s[1] = f.name THEN INVALIDATED_FUNC ELSE memo[s]]

\* Observer: invalidate_func_call(f, a) forgets that signature.
MemoAfterInvalidateKey(f, a) == [memo EXCEPT ![<<f.name, a>>] = INVALIDATED_KEY]

\* Observer: invalidate_all forgets every signature.
MemoAfterInvalidateAll == [s \in Sigs |-> INVALIDATED_ALL]

FaultChoice == IF cfg.faulty THEN BOOLEAN ELSE {FALSE}

\* Which of the two backend operations of an invalidation raises, if any.
FaultPoints == IF cfg.faulty THEN {"none", "keys", "delete"} ELSE {"none"}

\* The cut points of a batch: none, or any injected failure.
Cuts(cmds) ==
    {Len(cmds)} \cup (IF cfg.faulty THEN FaultCuts(cfg.backend, cmds) ELSE {})

\* Backends that answer every operation, and backends that may fail any of them.
CleanConfigs == {c \in Configs : c.enabled /\ ~c.faulty /\ c.locked_ttl = 0}

FaultyConfigs == {c \in Configs : c.enabled /\ c.faulty /\ ~c.debug /\ c.strict /\ c.locked_ttl = 0}

Start ==
    /\ now = 0
    /\ store = EmptyStore
    /\ th = [t \in Threads |-> IdleTh]
    /\ memo = [s \in Sigs |-> NEVER]
    /\ ops = 0

Init == cfg \in CleanConfigs /\ Start

InitFault == cfg \in FaultyConfigs /\ Start

----------------------------------------------------------------------------
(* Actions *)

\* wrapper, lines 291-322: a disabled instance calls the function and nothing
\* else; an enabled one builds the key, reads it, and returns on a hit that
\* deserializes.
Call(t, f, a) ==
    /\ th[t].pc = "idle"
    /\ ops < MaxOps
    /\ ops' = ops + 1
    /\ IF ~Enabled
       THEN LET r == IF Raises(f) THEN AfterFunctionRaised ELSE Returned(Body(f, a))
            IN  /\ store' = store
                /\ th' = [th EXCEPT ![t] =
                            [IdleTh EXCEPT !.op = "call", !.f = f, !.a = a,
                                           !.expect = Expect(f, a), !.pc = "done",
                                           !.invoked = TRUE, !.out = r.out, !.val = r.val]]
       ELSE \E fail \in FaultChoice :
              LET key    == ConstructKey(f, a)
                  g      == BackendGet(cfg.backend, store, key, now)
                  hit    == ~fail /\ g.hit /\ BytesTruthy(g.v)
                  dbgErr == hit /\ cfg.debug /\ BackendTtl(cfg.backend, g.s, key, now).err
                  cErr   == hit /\ ~dbgErr /\ DeserializeRaises(g.v)
                  nxt    == AfterGet(hit, g.v, fail \/ dbgErr \/ cErr)
              IN  /\ store' = IF fail THEN store ELSE g.s
                  /\ th' = [th EXCEPT ![t] =
                              [IdleTh EXCEPT !.op = "call", !.f = f, !.a = a,
                                             !.expect = Expect(f, a),
                                             !.pc = nxt.pc, !.out = nxt.out, !.val = nxt.val,
                                             !.gFail = fail, !.dErr = dbgErr, !.cErr = cErr]]
    /\ UNCHANGED <<cfg, now, memo>>

\* wrapper line 325 and _cache lines 507-529: call the function, serialize,
\* open the pipeline, queue the value write, extract the entity ids.
Invoke(t) ==
    /\ th[t].pc = "miss"
    /\ LET f == th[t].f
           a == th[t].a
       IN  IF Raises(f)
           THEN /\ th' = [th EXCEPT ![t] = [@ EXCEPT !.pc = "done", !.invoked = TRUE,
                                                     !.out = AfterFunctionRaised.out,
                                                     !.val = AfterFunctionRaised.val]]
                /\ memo' = memo
           ELSE \E pfail \in FaultChoice :
                  LET res == Body(f, a)
                      x   == ExtractFor(f, res, cfg.strict)
                      me  == [th[t] EXCEPT !.invoked = TRUE, !.res = res]
                  IN  IF pfail
                      THEN /\ th' = [th EXCEPT ![t] =
                                       [me EXCEPT !.pc = "done", !.wFail = TRUE,
                                                  !.out = AfterBatch(res, TRUE).out,
                                                  !.val = AfterBatch(res, TRUE).val]]
                           /\ memo' = MemoAfterCall(f, a)
                      ELSE IF f.entity # "" /\ Truthy(res)
                      THEN IF x.err
                           THEN /\ th' = [th EXCEPT ![t] =
                                            [me EXCEPT !.pc = "done", !.xErr = TRUE,
                                                       !.out = AfterExtractionError(res).out,
                                                       !.val = AfterExtractionError(res).val]]
                                /\ memo' = memo
                           ELSE /\ th' = [th EXCEPT ![t] =
                                            [me EXCEPT !.pc = "preread", !.ids = x.ids]]
                                /\ memo' = memo
                      ELSE /\ th' = [th EXCEPT ![t] =
                                       [me EXCEPT !.pc = "write",
                                                  !.cmds = <<SetexCmd(f, a, res)>>]]
                           /\ memo' = memo
    /\ UNCHANGED <<cfg, now, store, ops>>

\* _cache lines 531-560: run the TTL batch, then queue the index commands.
PreRead(t) ==
    /\ th[t].pc = "preread"
    /\ LET f     == th[t].f
           a     == th[t].a
           idseq == SetToSeq(th[t].ids)
           tcmds == TtlCmds(f.entity, idseq)
       IN  \E cut \in Cuts(tcmds) :
             LET r == Execute(cfg.backend, store, tcmds, now, cut)
             IN  /\ store' = r.s
                 /\ IF r.err
                    THEN /\ th' = [th EXCEPT ![t] =
                                     [@ EXCEPT !.pc = "done", !.tErr = TRUE,
                                               !.out = AfterBatch(th[t].res, TRUE).out,
                                               !.val = AfterBatch(th[t].res, TRUE).val]]
                         /\ memo' = MemoAfterCall(f, a)
                    ELSE /\ th' = [th EXCEPT ![t] =
                                     [@ EXCEPT !.pc = "write",
                                               !.cmds = WriteBatch(f, a, th[t].res,
                                                                   idseq, r.rs)]]
                         /\ memo' = memo
    /\ UNCHANGED <<cfg, now, ops>>

\* _cache line 566: pipeline.execute(), then the wrapper returns the result.
Write(t) ==
    /\ th[t].pc = "write"
    /\ \E cut \in Cuts(th[t].cmds) :
         LET r == Execute(cfg.backend, store, th[t].cmds, now, cut)
         IN  /\ store' = r.s
             /\ th' = [th EXCEPT ![t] =
                         [@ EXCEPT !.pc = "done", !.wFail = r.err,
                                   !.out = AfterBatch(th[t].res, r.err).out,
                                   !.val = AfterBatch(th[t].res, r.err).val]]
    /\ memo' = MemoAfterCall(th[t].f, th[t].a)
    /\ UNCHANGED <<cfg, now, ops>>

\* invalidate_entity, lines 763-772: read the members of the index.
InvStart(t, id) ==
    /\ th[t].pc = "idle"
    /\ ops < MaxOps
    /\ ops' = ops + 1
    /\ \E fail \in FaultChoice :
         LET m  == BackendSmembers(cfg.backend, store, EntityKey(InvEntity, id), now)
             me == [IdleTh EXCEPT !.op = "inv", !.id = id, !.gFail = fail]
         IN  IF fail \/ m.m = {}
             THEN /\ store' = IF fail THEN store ELSE m.s
                  /\ th' = [th EXCEPT ![t] =
                              [me EXCEPT !.pc = "done",
                                         !.out = AfterInvalidation(0, fail).out,
                                         !.count = AfterInvalidation(0, fail).count]]
                  /\ memo' = MemoAfterInvalidate(InvEntity, id)
             ELSE /\ store' = m.s
                  /\ th' = [th EXCEPT ![t] = [me EXCEPT !.pc = "invdel", !.members = m.m]]
                  /\ memo' = memo
    /\ UNCHANGED <<cfg, now>>

\* invalidate_entity, lines 779-804: the delete batch and the returned count.
InvDelete(t) ==
    /\ th[t].pc = "invdel"
    /\ LET cmds == DeleteCmds(th[t].members, EntityKey(InvEntity, th[t].id))
       IN  \E cut \in Cuts(cmds) :
             LET r == Execute(cfg.backend, store, cmds, now, cut)
             IN  /\ store' = r.s
                 /\ th' = [th EXCEPT ![t] =
                             [@ EXCEPT !.pc = "done", !.wFail = r.err,
                                       !.out = AfterInvalidation(0, r.err).out,
                                       !.count = AfterInvalidation(
                                                     Cardinality(th[t].members), r.err).count]]
    /\ memo' = MemoAfterInvalidate(InvEntity, th[t].id)
    /\ UNCHANGED <<cfg, now, ops>>

\* invalidate_func(f), lines 943-948, and invalidate_function(name), lines
\* 841-863: the keys matching cache:{name}:*, one delete of all of them, and
\* the number of keys found.
InvFunc(t, f) ==
    /\ th[t].pc = "idle"
    /\ ops < MaxOps
    /\ ops' = ops + 1
    /\ \E fault \in FaultPoints :
         LET func_name == IF f.cache_key # "" THEN f.cache_key ELSE f.name
             ks  == BackendKeys(cfg.backend, store, FuncPattern(func_name), now)
             d   == BackendDeleteMany(cfg.backend, ks.s, ks.keys, now)
             del == fault = "none" /\ ks.keys # {}
             err == fault = "keys" \/ (fault = "delete" /\ ks.keys # {})
             r   == AfterInvalidation(Cardinality(ks.keys), err)
         IN  /\ store' = IF fault = "keys" THEN store ELSE IF del THEN d.s ELSE ks.s
             /\ th' = [th EXCEPT ![t] =
                         [IdleTh EXCEPT !.op = "invfn", !.f = f, !.pc = "done",
                                        !.gFail = err, !.out = r.out, !.count = r.count]]
             /\ memo' = IF err THEN memo ELSE MemoAfterInvalidateFunc(f)
    /\ UNCHANGED <<cfg, now>>

\* invalidate_func_call(f, a), line 964, and invalidate_key, lines 877-900:
\* delete the key get_cache_key builds.
InvKey(t, f, a) ==
    /\ th[t].pc = "idle"
    /\ ops < MaxOps
    /\ ops' = ops + 1
    /\ \E fail \in FaultChoice :
         LET d == BackendDeleteMany(cfg.backend, store, {GetCacheKey(f, a)}, now)
             r == AfterInvalidateKey(fail)
         IN  /\ store' = IF fail THEN store ELSE d.s
             /\ th' = [th EXCEPT ![t] =
                         [IdleTh EXCEPT !.op = "invkey", !.f = f, !.a = a, !.pc = "done",
                                        !.gFail = fail, !.out = r.out, !.count = r.count]]
             /\ memo' = IF fail THEN memo ELSE MemoAfterInvalidateKey(f, a)
    /\ UNCHANGED <<cfg, now>>

\* invalidate_all, lines 910-928: every key matching "*", one delete of all of
\* them, and the count the delete reports.
InvAll(t) ==
    /\ th[t].pc = "idle"
    /\ ops < MaxOps
    /\ ops' = ops + 1
    /\ \E fault \in FaultPoints :
         LET ks  == BackendKeys(cfg.backend, store, AllPattern, now)
             d   == BackendDeleteMany(cfg.backend, ks.s, ks.keys, now)
             del == fault = "none" /\ ks.keys # {}
             err == fault = "keys" \/ (fault = "delete" /\ ks.keys # {})
             r   == AfterInvalidation(IF del THEN d.r ELSE 0, err)
         IN  /\ store' = IF fault = "keys" THEN store ELSE IF del THEN d.s ELSE ks.s
             /\ th' = [th EXCEPT ![t] =
                         [IdleTh EXCEPT !.op = "invall", !.pc = "done",
                                        !.gFail = err, !.out = r.out, !.count = r.count]]
             /\ memo' = IF err THEN memo ELSE MemoAfterInvalidateAll
    /\ UNCHANGED <<cfg, now>>

\* What may go wrong in one invalidate_entity: smembers raises, or the delete
\* batch raises at a cut; NoCut is a batch that runs to its end.
NoCut == 0 - 1

InvFaults ==
    IF cfg.faulty THEN [sm : BOOLEAN, cut : {0, 1, NoCut}]
    ELSE {[sm |-> FALSE, cut |-> NoCut]}

\* pipeline.execute() cut by an injected failure where the backend allows one.
ExecuteCut(kind, s, cmds, t, cut) ==
    Execute(kind, s, cmds, t, IF cut \in FaultCuts(kind, cmds) THEN cut ELSE Len(cmds))

\* invalidate_entity, lines 779-804: what the delete batch r of n keys leaves.
AfterDeleteBatch(n, r) ==
    [s |-> r.s, gFail |-> FALSE, wFail |-> r.err, count |-> AfterInvalidation(n, r.err).count]

\* invalidate_entity, lines 769-804: nothing to do for an empty index m,
\* otherwise the delete batch.
AfterSmembers(kind, entity_key, m, fault, t) ==
    IF m.m = {}
    THEN [s |-> m.s, gFail |-> FALSE, wFail |-> FALSE,
          count |-> AfterInvalidation(0, FALSE).count]
    ELSE AfterDeleteBatch(Cardinality(m.m),
                          ExecuteCut(kind, m.s, DeleteCmds(m.m, entity_key), t, fault.cut))

\* invalidate_entity, lines 763-808, as one call: the store it leaves, the
\* count it returns, and whether smembers or the batch raised (both are
\* logged, 0 is returned).
InvalidateEntity(kind, s, entity, id, fault, t) ==
    IF fault.sm
    THEN [s |-> s, gFail |-> TRUE, wFail |-> FALSE, count |-> AfterInvalidation(0, TRUE).count]
    ELSE AfterSmembers(kind, EntityKey(entity, id),
                       BackendSmembers(kind, s, EntityKey(entity, id), t), fault, t)

\* The failures of two invalidations in a row.
BothFailures(acc, one) ==
    [s |-> one.s, gFail |-> acc.gFail \/ one.gFail, wFail |-> acc.wFail \/ one.wFail]

\* invalidates wrapper, lines 482-483: invalidate_entity for each id in turn.
RECURSIVE InvalidateEach(_, _, _, _, _, _, _)
InvalidateEach(kind, acc, entity, idseq, faults, t, i) ==
    IF i > Len(idseq) THEN acc
    ELSE InvalidateEach(kind,
                        BothFailures(acc, InvalidateEntity(kind, acc.s, entity, idseq[i],
                                                           faults[i], t)),
                        entity, idseq, faults, t, i + 1)

\* The store and the caller's view after the invalidation r.
InvalidationDone(t, me, r) ==
    /\ store' = r.s
    /\ th' = [th EXCEPT ![t] = [me EXCEPT !.gFail = r.gFail, !.wFail = r.wFail,
                                          !.count = r.count]]

\* cache.invalidate_entity(entity, id) called by the application, lines
\* 741-808, as one call.
InvalidateEntityCall(t, entity, id) ==
    /\ th[t].pc = "idle"
    /\ ops < MaxOps
    /\ ops' = ops + 1
    /\ \E fault \in InvFaults :
         InvalidationDone(t, [IdleTh EXCEPT !.op = "inv", !.id = id, !.pc = "done",
                                            !.out = "value"],
                          InvalidateEntity(cfg.backend, store, entity, id, fault, now))
    /\ memo' = MemoAfterInvalidate(entity, id)
    /\ UNCHANGED <<cfg, now>>

\* Functions decorated with invalidates('user'): they return what they updated.
U_update == Fn("tests.update_user", "user", 0, "user")

U_update_many == Fn("tests.update_users", "user", 0, "users")

U_noid == Fn("tests.update_noid", "user", 0, "noid")

U_raise == Fn("tests.update_raises", "user", 0, "raise")

U_update_by ==
    [Fn("tests.update_user_by", "user", 0, "user_by") EXCEPT !.id_key = <<StrRule("user_id")>>]

Updaters == {U_update, U_update_many, U_noid, U_raise, U_update_by}

\* What the invalidates wrapper hands back, whatever the invalidation did.
AfterInvalidatesRaising(res, err) == IF err THEN Raised ELSE Returned(res)

AfterInvalidates(res, err) == Returned(res)

\* The store and the caller's view after the invalidations r of the wrapper.
InvalidatesDone(t, me, r) ==
    /\ store' = r.s
    /\ th' = [th EXCEPT ![t] =
                [me EXCEPT !.gFail = r.gFail, !.wFail = r.wFail,
                           !.out = AfterInvalidates(me.res, r.gFail \/ r.wFail).out,
                           !.val = AfterInvalidates(me.res, r.gFail \/ r.wFail).val]]

\* invalidates wrapper, lines 469-493: call the function, extract the ids of
\* its result, invalidate each of them, return the result.
Invalidates(t, g, a) ==
    /\ th[t].pc = "idle"
    /\ ops < MaxOps
    /\ ops' = ops + 1
    /\ LET me == [IdleTh EXCEPT !.op = "invalidates", !.f = g, !.a = a, !.pc = "done",
                                !.invoked = TRUE]
       IN  IF Raises(g)
           THEN /\ th' = [th EXCEPT ![t] = [me EXCEPT !.out = AfterFunctionRaised.out,
                                                      !.val = AfterFunctionRaised.val]]
                /\ UNCHANGED <<store, memo>>
           ELSE LET res == Body(g, a)
                    x   == ExtractEntityIdsBy(res, g.id_key, cfg.strict)
                    seq == SetToSeq(x.ids)
                IN  IF ~Enabled \/ x.err
                    THEN /\ th' = [th EXCEPT ![t] =
                                     [me EXCEPT !.res = res, !.xErr = Enabled /\ x.err,
                                                !.out = AfterInvalidates(res, x.err).out,
                                                !.val = AfterInvalidates(res, x.err).val]]
                         /\ UNCHANGED <<store, memo>>
                    ELSE \E faults \in [1..Len(seq) -> InvFaults] :
                               /\ InvalidatesDone(t, [me EXCEPT !.res = res, !.ids = x.ids],
                                      InvalidateEach(cfg.backend,
                                         [s |-> store, gFail |-> FALSE, wFail |-> FALSE],
                                         g.entity, seq, faults, now, 1))
                               /\ memo' = [sg \in Sigs |->
                                             IF \E f \in AllFuncs :
                                                   /\ f.name = sg[1] /\ f.entity = g.entity
                                                   /\ RefIds(f, sg[2]) \cap x.ids # {}
                                             THEN INVALIDATED ELSE memo[sg]]
    /\ UNCHANGED <<cfg, now>>

\* backend.setex(key, ttl, value) called on the backend object itself.
DirectSetex(k, ttl, v) ==
    /\ \A t \in Threads : th[t].pc = "idle"
    /\ ops < MaxOps
    /\ ops' = ops + 1
    /\ store' = Apply(cfg.backend, store, Cmd("setex", k, ttl, v, NoKey), now).s
    /\ UNCHANGED <<cfg, now, th, memo>>

\* backend.sadd(key, member) called on the backend object itself.
DirectSadd(k, m) ==
    /\ \A t \in Threads : th[t].pc = "idle"
    /\ ops < MaxOps
    /\ ops' = ops + 1
    /\ store' = Apply(cfg.backend, store, Cmd("sadd", k, 0, NoBytes, m), now).s
    /\ UNCHANGED <<cfg, now, th, memo>>

\* The caller has its answer; the thread is free for the next operation.
Return(t) ==
    /\ th[t].pc = "done"
    /\ th' = [th EXCEPT ![t] = IdleTh]
    /\ UNCHANGED <<cfg, now, store, memo, ops>>

\* Time passes between operations; the Redis server expires keys on its own.
Tick(d) ==
    /\ \A t \in Threads : th[t].pc = "idle"
    /\ now + d <= MaxNow
    /\ ops < MaxOps
    /\ ops' = ops + 1
    /\ now' = now + d
    /\ store' = IF cfg.backend = "redis" THEN RedisPurge(store, now + d) ELSE store
    /\ memo' = MemoAfterTick(now + d)
    /\ UNCHANGED <<cfg, th>>

\* Sequential use: one caller, one operation at a time.
Next ==
    \/ \E f \in Funcs : \E a \in ArgsOf(f) : Call(1, f, a)
    \/ Invoke(1)
    \/ PreRead(1)
    \/ Write(1)
    \/ \E id \in InvIds : InvStart(1, id)
    \/ InvDelete(1)
    \/ Return(1)
    \/ \E d \in TickSteps : Tick(d)

Spec == Init /\ [][Next]_vars

\* The functions called against a backend that may fail.
FaultFuncs == {F_add, F_get10, F_users}

\* Sequential use of a backend whose operations may raise.
NextFault ==
    \/ \E f \in FaultFuncs : \E a \in ArgsOf(f) : Call(1, f, a)
    \/ Invoke(1)
    \/ PreRead(1)
    \/ Write(1)
    \/ \E id \in InvIds : InvStart(1, id)
    \/ InvDelete(1)
    \/ Return(1)
    \/ \E d \in TickSteps : Tick(d)

SpecFault == InitFault /\ [][NextFault]_vars

\* The functions two concurrent callers use: two TTLs, one entity.
ConcFuncs == {F_get10, F_get90}

\* The networked backend, answering every operation.
ConcConfig ==
    [backend |-> "redis", debug |-> FALSE, strict |-> TRUE, faulty |-> FALSE,
     locked_ttl |-> 0, enabled |-> TRUE]

InitConc == cfg = ConcConfig /\ Start

\* Two threads inside wrapped calls at once: their backend operations
\* (get, the TTL batch, the write batch) interleave.
NextConc ==
    \/ \E t \in Threads : \E f \in ConcFuncs : \E a \in Args : Call(t, f, a)
    \/ \E t \in Threads : Invoke(t)
    \/ \E t \in Threads : PreRead(t)
    \/ \E t \in Threads : Write(t)
    \/ \E t \in Threads : Return(t)
    \/ \E d \in TickSteps : Tick(d)

SpecConc == InitConc /\ [][NextConc]_vars

\* Both backends, answering every operation, with the default settings.
InvConfigs == {c \in CleanConfigs : ~c.debug /\ c.strict}

InitInv == cfg \in InvConfigs /\ Start

\* The functions whose entries the invalidation methods are tried on, and the
\* arguments they are called with.
InvFuncs == {F_ck, F_ck2, F_scopeA, F_norm, F_get10}

InvArgsOf(f) == IF f = F_norm THEN Args ELSE {1}

\* Sequential calls mixed with invalidate_func and invalidate_func_call.
NextInv ==
    \/ \E f \in InvFuncs : \E a \in InvArgsOf(f) : Call(1, f, a)
    \/ Invoke(1)
    \/ PreRead(1)
    \/ Write(1)
    \/ \E f \in InvFuncs : InvFunc(1, f)
    \/ \E f \in InvFuncs : \E a \in InvArgsOf(f) : InvKey(1, f, a)
    \/ Return(1)
    \/ \E d \in TickSteps : Tick(d)

SpecInv == InitInv /\ [][NextInv]_vars

\* Two functions of scope 'entity' and one of scope 'function', one entity.
ScopeFuncs == {F_scopeA, F_scopeB, F_get10}

\* Sequential calls of functions that may share a cache slot.
NextScope ==
    \/ \E f \in ScopeFuncs : \E a \in Args : Call(1, f, a)
    \/ Invoke(1)
    \/ PreRead(1)
    \/ Write(1)
    \/ Return(1)
    \/ \E d \in TickSteps : Tick(d)

SpecScope == InitInv /\ [][NextScope]_vars

\* The functions called around invalidate_all, and the index key and member
\* a caller adds to the backend itself.
AllCallFuncs == {F_add, F_get10}

DirectKeys == {EntityKey("user", IntId(1))}

DirectMembers == {ConstructKey(F_get10, 1)}

\* Sequential calls, invalidate_all, and direct use of the backend's sets.
NextAll ==
    \/ \E f \in AllCallFuncs : \E a \in Args : Call(1, f, a)
    \/ Invoke(1)
    \/ PreRead(1)
    \/ Write(1)
    \/ InvAll(1)
    \/ \E k \in DirectKeys : \E m \in DirectMembers : DirectSadd(k, m)
    \/ Return(1)
    \/ \E d \in TickSteps : Tick(d)

SpecAll == InitInv /\ [][NextAll]_vars

\* The functions called around invalidations on a backend that may fail.
InvFaultFuncs == {F_add, F_get10}

\* Every invalidation method against a backend whose operations may raise.
NextInvFault ==
    \/ \E f \in InvFaultFuncs : Call(1, f, 1)
    \/ Invoke(1)
    \/ PreRead(1)
    \/ Write(1)
    \/ \E id \in InvIds : InvStart(1, id)
    \/ InvDelete(1)
    \/ \E f \in InvFaultFuncs : InvFunc(1, f)
    \/ \E f \in InvFaultFuncs : InvKey(1, f, 1)
    \/ InvAll(1)
    \/ Return(1)
    \/ \E d \in TickSteps : Tick(d)

SpecInvFault == InitFault /\ [][NextInvFault]_vars

\* Both backends with and without an instance TTL.
TtlConfigs == {c \in Configs : c.enabled /\ ~c.faulty /\ ~c.debug /\ c.strict}

InitTtl == cfg \in TtlConfigs /\ Start

\* Functions with a ttl of their own and without one.
TtlFuncs == {F_add, F_get10, F_users}

\* Line 267: a function with its own ttl cannot be declared on an instance
\* that locks the TTL.
Declarable(f) == ~(f.ttl # 0 /\ LockedTtl # 0)

\* Sequential calls and clock steps under each source of the TTL.
NextTtl ==
    \/ \E f \in TtlFuncs : \E a \in ArgsOf(f) : Declarable(f) /\ Call(1, f, a)
    \/ Invoke(1)
    \/ PreRead(1)
    \/ Write(1)
    \/ Return(1)
    \/ \E d \in TickSteps : Tick(d)

SpecTtl == InitTtl /\ [][NextTtl]_vars

\* Argument values of the key computations: ints, containers whose elements
\* compare and containers whose elements do not, dicts in both key orders and
\* a dict whose keys do not compare.
KeyValues ==
    {IntV(1),
     ListV(<<IntV(1), IntV(2)>>), ListV(<<IntV(2), IntV(1)>>),
     ListV(<<IntV(1), StrV("a")>>), ListV(<<StrV("a"), IntV(1)>>),
     TupleV(<<IntV(2), IntV(1)>>), SetV(<<IntV(2), IntV(1)>>),
     DictV(<<StrV("a"), IntV(1), StrV("b"), IntV(2)>>),
     DictV(<<StrV("b"), IntV(2), StrV("a"), IntV(1)>>),
     DictV(<<IntV(1), IntV(1), StrV("a"), IntV(2)>>)}

KeyInts == {IntV(1), IntV(2)}

\* The receiver of a method call.
Receiver == ObjV("tests.A object")

\* The calls of f with the values v and w: all positional, the second by
\* keyword, both by keyword in either order; for *args, one and two
\* positional arguments.
CallForms(f, v, w) ==
    LET self == IF f.params # <<>> /\ Head(f.params) = "self" THEN <<Receiver>> ELSE <<>>
    IN  IF f.params = <<"args">>
        THEN {CallOf(<<v>>, <<>>), CallOf(<<v, w>>, <<>>)}
        ELSE {CallOf(self \o <<v, w>>, <<>>),
              CallOf(self \o <<v>>, <<Kw("y", w)>>),
              CallOf(self, <<Kw("x", v), Kw("y", w)>>),
              CallOf(self, <<Kw("y", w), Kw("x", v)>>)}

CallsOf(f) == UNION {CallForms(f, v, w) : v \in KeyValues, w \in KeyInts}

\* Calls with int arguments only.
IntCallsOf(f) == UNION {CallForms(f, v, w) : v \in KeyInts, w \in KeyInts}

\* Two calls about to build their keys: of one function, or of two functions
\* with int arguments.
InitKey ==
    /\ cfg \in {c \in CleanConfigs : c.backend = "memory" /\ ~c.debug /\ c.strict}
    /\ now = 0
    /\ store = EmptyStore
    /\ memo = [s \in Sigs |-> NEVER]
    /\ ops = 0
    /\ \E f \in ShapeFuncs : \E g \in ShapeFuncs :
         \E c \in CallsOf(f) : \E d \in CallsOf(g) :
            /\ f # g => (c \in IntCallsOf(f) /\ d \in IntCallsOf(g))
            /\ th = [t \in Threads |->
                       [IdleTh EXCEPT !.op = "key", !.f = IF t = 1 THEN f ELSE g,
                                      !.call = IF t = 1 THEN c ELSE d]]

\* wrapper lines 293-297: normalize the parameters and build the key; a
\* TypeError of the normalization leaves the wrapper.
BuildKey(t) ==
    /\ th[t].pc = "idle"
    /\ th[t].op = "key"
    /\ LET f == th[t].f
           c == th[t].call
       IN  IF NormalizeParamsRaises(f, c.args, c.kwargs)
           THEN th' = [th EXCEPT ![t] = [@ EXCEPT !.pc = "done", !.out = "raised"]]
           ELSE th' = [th EXCEPT ![t] = [@ EXCEPT !.pc = "done", !.out = "value",
                                                  !.key = WrapperKey(f, c)]]
    /\ UNCHANGED <<cfg, now, store, memo, ops>>

NextKey == \E t \in Threads : BuildKey(t)

SpecKey == InitKey /\ [][NextKey]_vars

\* Both backends, failing or not, strict or not.
InvalidatesConfigs ==
    {c \in Configs : c.enabled /\ ~c.debug /\ c.locked_ttl = 0 /\ (c.faulty => c.strict)}

InitInvalidates == cfg \in InvalidatesConfigs /\ Start

\* The cached functions around the updaters, and an index entry a caller
\* adds to the backend itself for an entry of a function without entity.
CachedFuncs == {F_add, F_get10}

CachedArgs(f) == IF f = F_get10 THEN Args ELSE {1}

UpdaterArgs(g) == IF g.body \in {"user", "user_by"} THEN Args ELSE {1}

\* Sequential calls of cached functions and of functions decorated with
\* invalidates.
NextInvalidates ==
    \/ \E f \in CachedFuncs : \E a \in CachedArgs(f) : Call(1, f, a)
    \/ Invoke(1)
    \/ PreRead(1)
    \/ Write(1)
    \/ \E g \in Updaters : \E a \in UpdaterArgs(g) : Invalidates(1, g, a)
    \/ DirectSadd(EntityKey("user", IntId(1)), ConstructKey(F_add, 1))
    \/ Return(1)
    \/ Tick(90)

SpecInvalidates == InitInvalidates /\ [][NextInvalidates]_vars

\* The ids invalidate_entity is called with for the rows of an order: the
\* order key alone, and the full (order, product) tuples.
OrderIds == {IntId(a) : a \in Args}

ItemIds == {TupleId(<<IntId(a), IntId(b)>>) : a \in Args, b \in Args}

\* Calls of the function returning composite-key rows, and invalidations by
\* part of the key and by the whole key.
NextComposite ==
    \/ \E a \in Args : Call(1, F_items, a)
    \/ Invoke(1)
    \/ PreRead(1)
    \/ Write(1)
    \/ \E id \in OrderIds \cup ItemIds : InvalidateEntityCall(1, F_items.entity, id)
    \/ Return(1)
    \/ \E d \in TickSteps : Tick(d)

SpecComposite == InitInv /\ [][NextComposite]_vars

\* The functions whose stored bytes get damaged: one without entity, one with.
CorruptFuncs == {F_add, F_get10}

\* Sequential calls, and bytes no deserializer reads put under a function's key.
NextCorrupt ==
    \/ \E f \in CorruptFuncs : \E a \in Args : Call(1, f, a)
    \/ Invoke(1)
    \/ PreRead(1)
    \/ Write(1)
    \/ \E f \in CorruptFuncs : DirectSetex(ConstructKey(f, 1), EffectiveTtl(f), Garbage)
    \/ Return(1)
    \/ \E d \in TickSteps : Tick(d)

SpecCorrupt == InitInv /\ [][NextCorrupt]_vars

\* Sequential calls of functions with falsy results next to one whose result
\* is indexed, and an index a caller adds to the backend itself.
NextFalsy ==
    \/ \E f \in FalsyFuncs \cup {F_get10} : Call(1, f, 1)
    \/ Invoke(1)
    \/ PreRead(1)
    \/ Write(1)
    \/ DirectSadd(EntityKey("user", IntId(0)), ConstructKey(F_zero, 1))
    \/ Return(1)
    \/ \E d \in TickSteps : Tick(d)

SpecFalsy == InitInv /\ [][NextFalsy]_vars

\* Instances created with enabled=False, over either backend.
DisabledConfigs ==
    {c \in Configs : ~c.enabled /\ ~c.faulty /\ ~c.debug /\ c.locked_ttl = 0}

InitDisabled == cfg \in DisabledConfigs /\ Start

\* The functions wrapped by a disabled instance.
DisabledFuncs == {F_add, F_get10, F_raise}

\* Calls and updates through a disabled instance, around entries and index
\* members that are put into the backend directly.
NextDisabled ==
    \/ \E f \in DisabledFuncs : \E a \in ArgsOf(f) : Call(1, f, a)
    \/ \E g \in Updaters : \E a \in UpdaterArgs(g) : Invalidates(1, g, a)
    \/ \E f \in {F_add, F_get10} :
          DirectSetex(ConstructKey(f, 1), EffectiveTtl(f), Serialize(IntResult(7)))
    \/ DirectSadd(EntityKey("user", IntId(1)), ConstructKey(F_get10, 1))
    \/ Return(1)
    \/ \E d \in TickSteps : Tick(d)

SpecDisabled == InitDisabled /\ [][NextDisabled]_vars

\* Two backend instances with the key prefixes 'a:' and 'b:'; the keys their
\* callers pass, one of which begins with the other instance's prefix.
Handles == {1, 2}

PrefixOf(h) == IF h = 1 THEN "a:" ELSE "b:"

PlainKeys == {"k1", "k2", "b:k1"}

\* _prefix_key: the key behind the configured prefix.
PrefixKey(prefix, k) == IF prefix = "" THEN k ELSE prefix \o k

\* key.startswith(prefix), and key[len(prefix):] if so.
StartsWith(raw, prefix) == \E k \in PlainKeys : raw = prefix \o k

StripPrefix(prefix, raw) ==
    IF prefix # "" /\ StartsWith(raw, prefix)
    THEN CHOOSE k \in PlainKeys : raw = prefix \o k
    ELSE raw

\* Two RedisBackend instances share the client's server; every MemoryBackend
\* instance owns its dictionaries.
ServerOf(kind, h) == IF kind = "redis" THEN 1 ELSE h

\* backend.keys('*'): the keys matching prefix + '*', the prefix stripped
\* (memory.py lines 119-142 list data only, redis.py lines 75-95).
PrefixedKeys(kind, s, prefix) ==
    LET raws == IF kind = "memory" THEN DOMAIN s.data
                ELSE (DOMAIN s.data) \cup (DOMAIN s.sets)
    IN  {StripPrefix(prefix, raw) : raw \in {r \in raws : StartsWith(r, prefix)}}

\* The keys a queued pipeline command reaches the store with: MemoryPipeline
\* queues the backend's own method, RedisPrefixPipeline prefixes args[0].
PipelineKeys(kind, prefix, ks) ==
    IF kind = "memory" THEN [i \in 1..Len(ks) |-> PrefixKey(prefix, ks[i])]
    ELSE [i \in 1..Len(ks) |-> IF i = 1 THEN PrefixKey(prefix, ks[i]) ELSE ks[i]]

\* The keys a method of the backend itself reaches the store with.
DirectKeysOf(prefix, ks) == [i \in 1..Len(ks) |-> PrefixKey(prefix, ks[i])]

\* One command per raw key, run in order.
RECURSIVE RunOn(_, _, _, _, _, _, _)
RunOn(kind, s, op, raws, v, m, i) ==
    IF i > Len(raws) THEN s
    ELSE RunOn(kind, Apply(kind, s, Cmd(op, raws[i], 300, v, m), 0).s, op, raws, v, m, i + 1)

\* The key arguments tried: one key, or two for delete.
KeyArgs(op) ==
    {<<k>> : k \in PlainKeys}
    \cup (IF op = "delete" THEN {<<"k1", "k2">>, <<"k2", "b:k1">>} ELSE {})

WriteOps == {"setex", "sadd", "delete"}

InitPrefix ==
    /\ cfg \in InvConfigs
    /\ now = 0
    /\ store = [srv \in Handles |-> EmptyStore]
    /\ th = [t \in Threads |-> IdleTh]
    /\ memo = [sg \in Sigs |-> NEVER]
    /\ ops = 0

\* backend.setex / sadd / delete called on instance h, directly or queued on
\* its pipeline and executed.
PrefixedWrite(h, via, op, ks) ==
    /\ ops < MaxOps
    /\ ops' = ops + 1
    /\ LET srv  == ServerOf(cfg.backend, h)
           raws == IF via = "pipeline" THEN PipelineKeys(cfg.backend, PrefixOf(h), ks)
                   ELSE DirectKeysOf(PrefixOf(h), ks)
       IN  /\ store' = [store EXCEPT ![srv] =
                           RunOn(cfg.backend, @, op, raws, Serialize(IntResult(h)), "m", 1)]
           /\ th' = [th EXCEPT ![1] = [IdleTh EXCEPT !.op = op, !.a = h, !.key = ks,
                                                     !.expect = via]]
    /\ UNCHANGED <<cfg, now, memo>>

\* backend.get(k), backend.smembers(k) and backend.keys('*') on instance h.
PrefixedRead(h, op, k) ==
    /\ ops < MaxOps
    /\ ops' = ops + 1
    /\ LET srv == ServerOf(cfg.backend, h)
           raw == PrefixKey(PrefixOf(h), k)
           g   == BackendGet(cfg.backend, store[srv], raw, now)
           sm  == BackendSmembers(cfg.backend, store[srv], raw, now)
       IN  th' = [th EXCEPT ![1] =
                    [IdleTh EXCEPT !.op = op, !.a = h, !.key = <<k>>, !.expect = "direct",
                       !.out = IF op = "get" /\ ~g.hit THEN "none" ELSE "value",
                       !.val = IF op = "get" /\ g.hit THEN Deserialize(g.v) ELSE NoneResult,
                       !.members = CASE op = "smembers" -> sm.m
                                     [] op = "keys" -> PrefixedKeys(cfg.backend, store[srv],
                                                                    PrefixOf(h))
                                     [] OTHER -> {}]]
    /\ UNCHANGED <<cfg, now, store, memo>>

NextPrefix ==
    \/ \E h \in Handles : \E via \in {"direct", "pipeline"} : \E op \in WriteOps :
          \E ks \in KeyArgs(op) : PrefixedWrite(h, via, op, ks)
    \/ \E h \in Handles : \E op \in {"get", "smembers", "keys"} :
          \E k \in PlainKeys : PrefixedRead(h, op, k)

SpecPrefix == InitPrefix /\ [][NextPrefix]_vars

\* What a field of an item may hold: an int, None, or a list.
FieldValues == {IntId(1), IntId(2), NoneId, ListId}

\* The items of the extraction runs: dicts with any of the two fields.
ExtractItems ==
    {[user_id |-> u, account_id |-> v] : u \in FieldValues, v \in FieldValues}
    \cup {[user_id |-> u] : u \in FieldValues}
    \cup {[account_id |-> v] : v \in FieldValues}
    \cup {[name |-> NoneId]}

\* A single dict, or a list of two dicts.
ExtractResults ==
    {[shape |-> "dict", items |-> <<x>>, n |-> 0] : x \in ExtractItems}
    \cup {[shape |-> "list", items |-> <<x, y>>, n |-> 0] : x \in ExtractItems, y \in ExtractItems}

\* One rule, and two rules of either kind.
RuleLists ==
    {<<StrRule("user_id")>>}
    \cup {<<r1, r2>> : r1 \in {StrRule("user_id"), CallableRule("user_id")},
                        r2 \in {StrRule("account_id"), CallableRule("account_id")}}

\* A result about to have its ids extracted under a rule list.
InitExtract ==
    /\ cfg \in {c \in CleanConfigs : c.backend = "memory" /\ ~c.debug}
    /\ now = 0
    /\ store = EmptyStore
    /\ memo = [s \in Sigs |-> NEVER]
    /\ ops = 0
    /\ \E r \in ExtractResults : \E rules \in RuleLists :
         th = [t \in Threads |->
                 IF t = 1
                 THEN [IdleTh EXCEPT !.op = "extract", !.res = r,
                                     !.f = [Fn("tests.get_accounts", "user", 0, "") EXCEPT
                                               !.id_key = rules]]
                 ELSE IdleTh]

\* extract_entity_ids(func, result, id_key, fail_on_missing_id): the id set,
\* or the IdExtractorError.
ExtractIds(t) ==
    /\ th[t].pc = "idle"
    /\ th[t].op = "extract"
    /\ LET x == ExtractEntityIdsBy(th[t].res, th[t].f.id_key, cfg.strict)
       IN  th' = [th EXCEPT ![t] = [@ EXCEPT !.pc = "done", !.xErr = x.err, !.ids = x.ids,
                                            !.out = IF x.err THEN "raised" ELSE "value"]]
    /\ UNCHANGED <<cfg, now, store, memo, ops>>

NextExtract == ExtractIds(1)

SpecExtract == InitExtract /\ [][NextExtract]_vars

----------------------------------------------------------------------------
(* The MemoryBackend used directly (backends/memory.py) *)

\* The keys, values and set members the direct calls use.
BKeys == {<<"k1">>, <<"k2">>}

BValues == {Serialize(IntResult(1)), Serialize(IntResult(2))}

BMember == <<"m">>

\* expire=None (0) or a number of seconds.
BExpiries == {0, 10}

\* The record of the backend call that has just returned.
BCall(op, k) == [IdleTh EXCEPT !.op = op, !.key = k]

\* A fresh backend.  memo is the observer: per key, the value a set() without
\* expiry left under it, while the key has been neither deleted nor given an
\* expiry since (NoBytes otherwise).
InitMemory ==
    /\ cfg \in {c \in CleanConfigs : c.backend = "memory" /\ ~c.debug /\ ~c.strict}
    /\ now = 0
    /\ store = EmptyStore
    /\ th = [t \in Threads |-> IdleTh]
    /\ memo = [k \in BKeys |-> NoBytes]
    /\ ops = 0

\* backend.set(key, value, expire)
BSet(k, v, expire) ==
    /\ ops < MaxOps
    /\ ops' = ops + 1
    /\ store' = MemSet(store, k, v, expire, now)
    /\ th' = [th EXCEPT ![1] = [BCall("set", k) EXCEPT !.count = 1]]
    /\ memo' = [memo EXCEPT ![k] = IF expire = 0 THEN v ELSE NoBytes]
    /\ UNCHANGED <<cfg, now>>

\* backend.setex(key, seconds, value)
BSetex(k, n, v) ==
    /\ ops < MaxOps
    /\ ops' = ops + 1
    /\ store' = MemSetex(store, k, n, v, now)
    /\ th' = [th EXCEPT ![1] = [BCall("setex", k) EXCEPT !.count = 1]]
    /\ memo' = [memo EXCEPT ![k] = NoBytes]
    /\ UNCHANGED <<cfg, now>>

\* backend.get(key)
BGet(k) ==
    /\ ops < MaxOps
    /\ ops' = ops + 1
    /\ store' = MemGet(store, k, now).s
    /\ th' = [th EXCEPT ![1] =
                 IF MemGet(store, k, now).hit
                 THEN [BCall("get", k) EXCEPT !.out = "value",
                                              !.val = Deserialize(MemGet(store, k, now).v)]
                 ELSE BCall("get", k)]
    /\ UNCHANGED <<cfg, now, memo>>

\* backend.delete(key)
BDelete(k) ==
    /\ ops < MaxOps
    /\ ops' = ops + 1
    /\ store' = MemDelete(store, k).s
    /\ th' = [th EXCEPT ![1] = [BCall("delete", k) EXCEPT !.count = MemDelete(store, k).r]]
    /\ memo' = [memo EXCEPT ![k] = NoBytes]
    /\ UNCHANGED <<cfg, now>>

\* backend.sadd(key, member)
BSadd(k) ==
    /\ ops < MaxOps
    /\ ops' = ops + 1
    /\ store' = MemSadd(store, k, BMember, now).s
    /\ th' = [th EXCEPT ![1] = [BCall("sadd", k) EXCEPT !.count = MemSadd(store, k, BMember, now).r]]
    /\ UNCHANGED <<cfg, now, memo>>

\* backend.smembers(key)
BSmembers(k) ==
    /\ ops < MaxOps
    /\ ops' = ops + 1
    /\ store' = MemSmembers(store, k, now).s
    /\ th' = [th EXCEPT ![1] = [BCall("smembers", k) EXCEPT !.members = MemSmembers(store, k, now).m]]
    /\ UNCHANGED <<cfg, now, memo>>

\* backend.expire(key, seconds)
BExpire(k, n) ==
    /\ ops < MaxOps
    /\ ops' = ops + 1
    /\ store' = MemExpire(store, k, n, now).s
    /\ th' = [th EXCEPT ![1] = [BCall("expire", k) EXCEPT !.count = MemExpire(store, k, n, now).r]]
    /\ memo' = [memo EXCEPT ![k] = IF MemExpire(store, k, n, now).r = 1 THEN NoBytes ELSE @]
    /\ UNCHANGED <<cfg, now>>

\* backend.keys('*')
BKeysAll ==
    /\ ops < MaxOps
    /\ ops' = ops + 1
    /\ store' = MemKeys(store, AllPattern, now).s
    /\ th' = [th EXCEPT ![1] = [BCall("keys", <<>>) EXCEPT !.members = MemKeys(store, AllPattern, now).keys]]
    /\ UNCHANGED <<cfg, now, memo>>

\* time.time() moves on between two backend calls.
Sleep(d) ==
    /\ \A t \in Threads : th[t].pc = "idle"
    /\ now + d <= MaxNow
    /\ ops < MaxOps
    /\ ops' = ops + 1
    /\ now' = now + d
    /\ th' = [th EXCEPT ![1] = IdleTh]
    /\ UNCHANGED <<cfg, store, memo>>

NextMemory ==
    \/ \E k \in BKeys : \E v \in BValues : \E e \in BExpiries : BSet(k, v, e)
    \/ \E k \in BKeys : \E v \in BValues : BSetex(k, 10, v)
    \/ \E k \in BKeys : BGet(k)
    \/ \E k \in BKeys : BDelete(k)
    \/ \E k \in BKeys : BSadd(k)
    \/ \E k \in BKeys : BSmembers(k)
    \/ \E k \in BKeys : BExpire(k, 10)
    \/ BKeysAll
    \/ \E d \in TickSteps : Sleep(d)

SpecMemory == InitMemory /\ [][NextMemory]_vars

----------------------------------------------------------------------------
(* Two threads on one MemoryBackend: the RLock and MemoryPipeline.execute *)

\* A lock that never blocks.
LockFreeAlways(t) == TRUE

\* threading.RLock (memory.py line 38): `with self.lock` proceeds when the
\* lock is free or held by the calling thread.  memo holds the owner (0: free).
LockFree(t) == memo \in {0, t}

\* The batch the write path queues for get_user(a) -> {'id': a} when the
\* index has no expiry yet: setex(key), sadd(index, key), expire(index).
LockFunc == F_get10

LockBatch(a) ==
    WriteBatch(LockFunc, a, Body(LockFunc, a), <<IntId(a)>>, <<TTL_ABSENT>>)

InitLock ==
    /\ cfg \in {c \in CleanConfigs : c.backend = "memory" /\ ~c.debug /\ ~c.strict}
    /\ now = 0
    /\ store = EmptyStore
    /\ th = [t \in Threads |-> IdleTh]
    /\ memo = 0
    /\ ops = 0

\* pipeline = backend.pipeline(); pipeline.setex(..); pipeline.sadd(..);
\* pipeline.expire(..): MemoryPipeline.__getattr__ only appends to commands.
LQueue(t, a) ==
    /\ th[t].pc = "idle"
    /\ ops < MaxOps
    /\ ops' = ops + 1
    /\ th' = [th EXCEPT ![t] = [IdleTh EXCEPT !.pc = "queued", !.op = "batch", !.a = a,
                                              !.cmds = LockBatch(a)]]
    /\ UNCHANGED <<cfg, now, store, memo>>

\* MemoryPipeline.execute, line 220: `with self.backend.lock:`
LAcquire(t) ==
    /\ th[t].pc = "queued"
    /\ LockFree(t)
    /\ memo' = t
    /\ th' = [th EXCEPT ![t] = [@ EXCEPT !.pc = "exec", !.count = 0]]
    /\ UNCHANGED <<cfg, now, store, ops>>

\* Lines 221-224: the next queued backend method runs (it takes the lock the
\* thread already holds).
LStep(t) ==
    /\ th[t].pc = "exec"
    /\ th[t].count < Len(th[t].cmds)
    /\ LockFree(t)
    /\ store' = Apply("memory", store, th[t].cmds[th[t].count + 1], now).s
    /\ th' = [th EXCEPT ![t] = [@ EXCEPT !.count = @ + 1]]
    /\ UNCHANGED <<cfg, now, memo, ops>>

\* The with block ends: the lock is released, execute returns the results.
LRelease(t) ==
    /\ th[t].pc = "exec"
    /\ th[t].count = Len(th[t].cmds)
    /\ memo' = IF memo = t THEN 0 ELSE memo
    /\ th' = [th EXCEPT ![t] = [@ EXCEPT !.pc = "done"]]
    /\ UNCHANGED <<cfg, now, store, ops>>

\* backend.get(key) by a reader, lines 78-86.
LGet(t, a) ==
    /\ th[t].pc = "idle"
    /\ ops < MaxOps
    /\ LockFree(t)
    /\ ops' = ops + 1
    /\ store' = MemGet(store, ConstructKey(LockFunc, a), now).s
    /\ th' = [th EXCEPT ![t] =
                 [IdleTh EXCEPT !.pc = "got", !.op = "read", !.a = a,
                                !.out = IF MemGet(store, ConstructKey(LockFunc, a), now).hit
                                        THEN "value" ELSE "none"]]
    /\ UNCHANGED <<cfg, now, memo>>

\* The reader then reads the index: backend.smembers(index), lines 162-170.
LSmembers(t) ==
    /\ th[t].pc = "got"
    /\ LockFree(t)
    /\ store' = MemSmembers(store, EntityKey(LockFunc.entity, IntId(th[t].a)), now).s
    /\ th' = [th EXCEPT ![t] =
                 [@ EXCEPT !.pc = "done",
                           !.members = MemSmembers(store, EntityKey(LockFunc.entity,
                                                                    IntId(th[t].a)), now).m]]
    /\ UNCHANGED <<cfg, now, memo, ops>>

\* backend.delete(key) of a cache key, lines 103-117.
LDelete(t, a) ==
    /\ th[t].pc = "idle"
    /\ ops < MaxOps
    /\ LockFree(t)
    /\ ops' = ops + 1
    /\ store' = MemDelete(store, ConstructKey(LockFunc, a)).s
    /\ th' = [th EXCEPT ![t] = [IdleTh EXCEPT !.pc = "done", !.op = "delete", !.a = a]]
    /\ UNCHANGED <<cfg, now, memo>>

NextLock ==
    \/ \E t \in Threads : \E a \in Args : LQueue(t, a) \/ LGet(t, a) \/ LDelete(t, a)
    \/ \E t \in Threads : LAcquire(t) \/ LStep(t) \/ LRelease(t) \/ LSmembers(t) \/ Return(t)
    \/ \E d \in TickSteps : Sleep(d)

SpecLock == InitLock /\ [][NextLock]_vars

----------------------------------------------------------------------------
(* invalidate_entity racing wrapped calls *)

\* Two threads on the networked backend: wrapped calls of functions that
\* refer to one entity, and invalidate_entity of that entity; the member read
\* and the delete batch of the invalidation interleave with the get, the TTL
\* batch and the write batch of the calls.
NextRace ==
    \/ \E t \in Threads : \E f \in ConcFuncs : Call(t, f, 1)
    \/ \E t \in Threads : Invoke(t)
    \/ \E t \in Threads : PreRead(t)
    \/ \E t \in Threads : Write(t)
    \/ \E t \in Threads : InvStart(t, IntId(1))
    \/ \E t \in Threads : InvDelete(t)
    \/ \E t \in Threads : Return(t)
    \/ Tick(5)

SpecRace == InitConc /\ [][NextRace]_vars

----------------------------------------------------------------------------
(* Keys of calls whose arguments hold nested containers *)

L12 == ListV(<<IntV(1), IntV(2)>>)

L21 == ListV(<<IntV(2), IntV(1)>>)

L3 == ListV(<<IntV(3)>>)

\* A list or tuple in a list, in a tuple, in a set (a tuple), in a dict, in a
\* dict in a dict, and in a dict in a list, each in two element orders.
NestedValues ==
    {ListV(<<L12, L3>>), ListV(<<L21, L3>>),
     TupleV(<<L12, L3>>), TupleV(<<L21, L3>>),
     SetV(<<TupleV(<<IntV(1), IntV(2)>>)>>), SetV(<<TupleV(<<IntV(2), IntV(1)>>)>>),
     DictV(<<StrV("a"), L12>>), DictV(<<StrV("a"), L21>>),
     DictV(<<StrV("a"), DictV(<<StrV("b"), L12>>)>>),
     DictV(<<StrV("a"), DictV(<<StrV("b"), L21>>)>>),
     ListV(<<DictV(<<StrV("a"), L12>>)>>), ListV(<<DictV(<<StrV("a"), L21>>)>>)}

\* Two calls f(x, 1) of a function wrapped with normalize_args=True.
InitNested ==
    /\ cfg \in {c \in CleanConfigs : c.backend = "memory" /\ ~c.debug /\ c.strict}
    /\ now = 0
    /\ store = EmptyStore
    /\ memo = [s \in Sigs |-> NEVER]
    /\ ops = 0
    /\ \E v \in NestedValues : \E w \in NestedValues :
          th = [t \in Threads |->
                  [IdleTh EXCEPT !.op = "key", !.f = F_xy,
                                 !.call = CallOf(<<IF t = 1 THEN v ELSE w, IntV(1)>>, <<>>)]]

SpecNested == InitNested /\ [][NextKey]_vars

----------------------------------------------------------------------------
(* Every invalidation method called twice in a row *)

\* The functions whose entries are invalidated.
IdemFuncs == {F_add, F_get10}

\* The caller repeats the invalidation that has just returned (thread 1 holds
\* its record), with the same arguments and before anything else happens.
Repeat ==
    /\ th[1].pc = "done"
    /\ \/ th[1].op = "inv" /\ InvalidateEntityCall(2, InvEntity, th[1].id)
       \/ th[1].op = "invfn" /\ InvFunc(2, th[1].f)
       \/ th[1].op = "invkey" /\ InvKey(2, th[1].f, th[1].a)
       \/ th[1].op = "invall" /\ InvAll(2)

\* Sequential calls and invalidations on either backend, each invalidation
\* possibly followed by its repetition.
NextIdem ==
    \/ \E f \in IdemFuncs : Call(1, f, 1)
    \/ Invoke(1)
    \/ PreRead(1)
    \/ Write(1)
    \/ \E id \in InvIds : InvalidateEntityCall(1, InvEntity, id)
    \/ \E f \in IdemFuncs : InvFunc(1, f)
    \/ \E f \in IdemFuncs : InvKey(1, f, 1)
    \/ InvAll(1)
    \/ DirectSadd(EntityKey(InvEntity, IntId(1)), ConstructKey(F_add, 1))
    \/ Repeat
    \/ \E t \in Threads : Return(t)
    \/ \E d \in TickSteps : Tick(d)

SpecIdem == InitInv /\ [][NextIdem]_vars

----------------------------------------------------------------------------
(* A cache slot whose value comes to refer to another entity *)

\* Two functions of scope 'entity' share the slot cache:user:{hash}.
PreciseFuncs == {F_scopeA, F_manager}

\* Sequential calls, expiries, invalidate_func_call and invalidate_entity.
NextPrecise ==
    \/ \E f \in PreciseFuncs : \E a \in Args : Call(1, f, a)
    \/ Invoke(1)
    \/ PreRead(1)
    \/ Write(1)
    \/ \E f \in PreciseFuncs : \E a \in Args : InvKey(1, f, a)
    \/ \E id \in InvIds : InvStart(1, id)
    \/ InvDelete(1)
    \/ Return(1)
    \/ \E d \in TickSteps : Tick(d)

SpecPrecise == InitInv /\ [][NextPrecise]_vars

----------------------------------------------------------------------------
(* Properties *)

\* The expiry time of a key; a key without expiry never expires.
NoExpiry == MaxNow + 1000

ExpiresAt(s, k) == IF k \in DOMAIN s.expires THEN s.expires[k] ELSE NoExpiry

Max(x, y) == IF x >= y THEN x ELSE y

\* The ids of a result of an entity-tracked function, read off the result.
IdsOfResult(r) == {ItemsOf(r)[i].id : i \in 1..Len(ItemsOf(r))}

\* A truthy result of an entity-tracked function with an id of an unsupported
\* type, or with a missing id under fail_on_missing_id.
ExtractionMustFail(f, a) ==
    /\ f.entity # ""
    /\ ~Raises(f)
    /\ Truthy(Body(f, a))
    /\ \/ \E id \in IdsOfResult(Body(f, a)) : id # NoneId /\ id.ty \notin SupportedIdTypes
       \/ cfg.strict /\ NoneId \in IdsOfResult(Body(f, a))

\* The functions whose results carry well-formed ids.
TracksIds(f) == f.body \in {"user", "users"}

\* C1: for a function wrapped without an entity, with debug off, a finished
\* call returns the function's result; the first call with given arguments
\* invokes the function (so does a call with other arguments, which is a first
\* call for them), and a later call within the TTL with no invalidation in
\* between does not invoke it.
C1_PlainCaching ==
    LET c == th[1]
    IN  (c.pc = "done" /\ c.op = "call" /\ c.f.entity = "" /\ ~cfg.debug) =>
            /\ c.out = "value"
            /\ c.val = Body(c.f, c.a)
            /\ (c.expect = "first" => c.invoked)
            /\ (c.expect = "fresh" => ~c.invoked)

\* add(2) is served from the cache while add(1) is cached too.
C1_Witness ==
    /\ th[1].pc = "done" /\ th[1].f = F_add /\ th[1].a = 2 /\ ~cfg.debug
    /\ th[1].expect = "fresh" /\ ~th[1].invoked
    /\ th[1].val = IntResult(3)
    /\ memo[<<F_add.name, 1>>] >= 0

\* C2: on the in-memory backend, the first call of an entity-tracked function
\* whose result yields ids stores the value key and adds it to each entity
\* index with index TTL = ttl + 300, and the second call within the TTL is a
\* hit.
C2_MemoryEntityWrite ==
    LET c   == th[1]
        key == ConstructKey(c.f, c.a)
    IN  (cfg.backend = "memory" /\ ~cfg.debug /\ c.pc = "done" /\ c.op = "call"
            /\ TracksIds(c.f)) =>
            /\ (c.expect = "first" =>
                  /\ key \in DOMAIN store.data
                  /\ \A id \in c.ids :
                        LET ek == EntityKey(c.f.entity, id)
                        IN  /\ ek \in DOMAIN store.sets
                            /\ key \in store.sets[ek]
                            /\ ExpiresAt(store, ek)
                                 = now + EffectiveTtl(c.f) + reverse_index_ttl_gap)
            /\ (c.expect = "fresh" => ~c.invoked)

\* C3: on the networked backend, a call of an entity-tracked function after
\* an invalidation of an entity its result refers to is a miss, and a call
\* whose entities were not invalidated since it was cached is a hit.
C3_InvalidationPrecision ==
    LET c == th[1]
    IN  (cfg.backend = "redis" /\ c.pc = "done" /\ c.op = "call" /\ TracksIds(c.f)) =>
            /\ (c.expect = "invalidated" => c.invoked)
            /\ (c.expect = "fresh" => ~c.invoked)

\* get(2) is a hit after get(1) was invalidated.
C3_Witness ==
    /\ cfg.backend = "redis"
    /\ th[1].pc = "done" /\ th[1].f = F_get90 /\ th[1].a = 2
    /\ th[1].expect = "fresh" /\ ~th[1].invoked
    /\ memo[<<F_get90.name, 1>>] = INVALIDATED

\* C4: on the networked backend, a sequential write with TTL t sets the
\* expiry of each entity index it refers to to t + gap when the index has no
\* expiry or t + gap exceeds its remaining TTL, and leaves it unchanged
\* otherwise.
C4_IndexTtlRule ==
    [][(cfg.backend = "redis" /\ th[1].pc = "write" /\ th'[1].pc = "done") =>
          \A id \in th[1].ids :
             LET ek  == EntityKey(th[1].f.entity, id)
                 old == RedisTtl(store, ek, now).r
                 new == EffectiveTtl(th[1].f) + reverse_index_ttl_gap
             IN  RedisTtl(store', ek, now).r = IF old < 0 \/ new > old THEN new ELSE old]_vars

\* After the ttl=10 and ttl=90 writes the ttl=5 write has left the index at 390.
C4_Witness ==
    /\ cfg.backend = "redis"
    /\ th[1].pc = "done" /\ th[1].f = F_get5 /\ th[1].invoked
    /\ ConstructKey(F_get10, 1) \in DOMAIN store.data
    /\ ConstructKey(F_get90, 1) \in DOMAIN store.data
    /\ ExpiresAt(store, EntityKey("user", IntId(1))) = now + 90 + reverse_index_ttl_gap

\* C5: on the networked backend, every stored cache entry written with entity
\* ids is a member of the index of each of those entities, and the index does
\* not expire before the entry.
C5_IndexOutlivesEntries ==
    cfg.backend = "redis" =>
        \A f \in Funcs : \A a \in Args :
            LET key == ConstructKey(f, a)
            IN  (f.entity # "" /\ ~Raises(f) /\ key \in DOMAIN store.data) =>
                    \A id \in ExtractEntityIds(Body(f, a), cfg.strict).ids :
                        LET ek == EntityKey(f.entity, id)
                        IN  /\ ek \in DOMAIN store.sets
                            /\ key \in store.sets[ek]
                            /\ ExpiresAt(store, ek) >= ExpiresAt(store, key)

\* A ttl=90 entry written late into an index that a ttl=10 write created.
C5_Witness ==
    /\ cfg.backend = "redis"
    /\ th[1].pc = "done" /\ th[1].f = F_get90 /\ th[1].invoked
    /\ now >= 300
    /\ ConstructKey(F_get90, 1) \in DOMAIN store.data
    /\ ConstructKey(F_get10, 1) \in store.sets[EntityKey("user", IntId(1))]
    /\ ExpiresAt(store, EntityKey("user", IntId(1))) = now + 90 + reverse_index_ttl_gap

\* C6: when two calls with different TTLs that refer to the same entity have
\* both run their write paths, in whatever interleaving, the index expires no
\* earlier than max(ttlA, ttlB) + gap after the writes.
C6_RaceKeepsHighWaterMark ==
    LET c == th[1]
        d == th[2]
    IN  (c.pc = "done" /\ d.pc = "done" /\ c.invoked /\ d.invoked
            /\ EffectiveTtl(c.f) # EffectiveTtl(d.f)) =>
            \A id \in c.ids \cap d.ids :
                ExpiresAt(store, EntityKey(c.f.entity, id))
                    >= now + Max(EffectiveTtl(c.f), EffectiveTtl(d.f)) + reverse_index_ttl_gap

\* C7: when backend.get raises, or the TTL batch or the write batch raises,
\* the call has invoked the underlying function and returns its result.
C7_BackendErrorsNeverFailTheCall ==
    LET c == th[1]
    IN  (c.pc = "done" /\ c.op = "call" /\ (c.gFail \/ c.wFail \/ c.tErr)) =>
            /\ c.invoked
            /\ c.out = "value"
            /\ c.val = Body(c.f, c.a)

\* Both backend.get and the write batch raised during one call.
C7_Witness ==
    /\ th[1].pc = "done" /\ th[1].op = "call"
    /\ th[1].gFail /\ th[1].wFail
    /\ th[1].out = "value"

\* C8: a call of a function that raises hands the exception to the caller,
\* and neither its lookup nor its miss path changes the backend.
C8_FunctionErrorPropagates ==
    [][(th'[1].op = "call" /\ Raises(th'[1].f) /\ th[1].pc \in {"idle", "miss"}) =>
          /\ store' = store
          /\ th'[1].pc = "done" => (th'[1].invoked /\ th'[1].out = "raised")]_vars

\* The function raised while other entries were cached.
C8_Witness ==
    /\ th[1].pc = "done" /\ th[1].f = F_raise /\ th[1].out = "raised"
    /\ store.data # EmptyDict

\* C9: with fail_on_missing_id, a failed id extraction during the write path
\* reaches the caller of the wrapped function as an error.
C9_ExtractionErrorReachesCaller ==
    (cfg.strict /\ th[1].pc = "done" /\ th[1].op = "call" /\ th[1].xErr) =>
        th[1].out = "raised"

Without(d, ks) == [k \in (DOMAIN d) \ ks |-> d[k]]

\* C11: invalidate_entity reads the members of the index; when there are none
\* it returns 0 and leaves the backend as it was; otherwise its one batch
\* removes exactly the member keys and the index key, and it returns the
\* number of members.
C11_InvalidateEntity ==
    [][(th'[1].op = "inv" /\ th[1].pc \in {"idle", "invdel"}) =>
          LET ek == EntityKey(InvEntity, th'[1].id)
              m  == BackendSmembers(cfg.backend, store, ek, now).m
          IN  /\ (th[1].pc = "idle" /\ m = {}) =>
                    (th'[1].pc = "done" /\ th'[1].count = 0 /\ store' = store)
              /\ (th[1].pc = "idle" /\ m # {}) =>
                    (th'[1].pc = "invdel" /\ th'[1].members = m /\ store' = store)
              /\ th[1].pc = "invdel" =>
                    /\ th'[1].pc = "done"
                    /\ th'[1].count = Cardinality(m)
                    /\ store'.data = Without(store.data, m \cup {ek})
                    /\ store'.sets = Without(store.sets, m \cup {ek})
                    /\ store'.expires = Without(store.expires, m \cup {ek})]_vars

\* Two entries referring to user 1 were evicted while an entry of user 2 stays.
C11_Witness ==
    /\ th[1].pc = "done" /\ th[1].op = "inv" /\ th[1].id = IntId(1)
    /\ th[1].count = 2
    /\ EntityKey(InvEntity, IntId(1)) \notin DOMAIN store.sets
    /\ store.data # EmptyDict

\* The entries of the store that have not expired at time t.
LiveData(s, t) ==
    [k \in {x \in DOMAIN s.data :
                x \notin DOMAIN s.expires
                \/ (IF cfg.backend = "memory" THEN s.expires[x] >= t ELSE s.expires[x] > t)}
        |-> s.data[k]]

\* C12: after invalidate_func(f) a call of f recomputes, whatever the
\* decorator configuration of f.
C12_InvalidateFuncForgets ==
    (th[1].pc = "done" /\ th[1].op = "call" /\ th[1].expect = "invalidated_func") =>
        th[1].invoked

\* C13: invalidate_func(f) removes exactly the unexpired entries whose key
\* prefix is f's name or cache_key, and leaves every entity index as it was.
C13_InvalidateFuncFrame ==
    [][(th'[1].op = "invfn" /\ th[1].pc = "idle") =>
          LET f         == th'[1].f
              func_name == IF f.cache_key # "" THEN f.cache_key ELSE f.name
              own       == {k \in DOMAIN store.data : k[1] = "cache" /\ k[2] = func_name}
          IN  /\ LiveData(store', now) = Without(LiveData(store, now), own)
              /\ store'.sets = store.sets
              /\ \A k \in DOMAIN store.sets : ExpiresAt(store', k) = ExpiresAt(store, k)]_vars

\* C14: after invalidate_func_call(f, a) the call f(a) recomputes, whatever
\* the decorator configuration of f.
C14_InvalidateCallForgets ==
    (th[1].pc = "done" /\ th[1].op = "call" /\ th[1].expect = "invalidated_key") =>
        th[1].invoked

\* C15: after invalidate_all the backend holds no key, neither a value nor an
\* index set, and a call made after it recomputes.
C15_InvalidateAllEmpties ==
    /\ (th[1].pc = "done" /\ th[1].op = "invall") =>
            (store.data = EmptyDict /\ store.sets = EmptyDict)
    /\ (th[1].pc = "done" /\ th[1].op = "call" /\ th[1].expect = "invalidated_all") =>
            th[1].invoked

\* C16: an invalidation method during which a backend operation raised
\* returns to its caller, with 0 (False for invalidate_key).
C16_InvalidationErrorsReturnZero ==
    (th[1].pc = "done" /\ th[1].op \in {"inv", "invfn", "invkey", "invall"}
        /\ (th[1].gFail \/ th[1].wFail)) =>
        (th[1].out = "value" /\ th[1].count = 0)

\* The delete batch of invalidate_entity raised after the members were read.
C16_Witness ==
    /\ th[1].pc = "done" /\ th[1].op = "inv" /\ th[1].wFail
    /\ th[1].members # {} /\ th[1].count = 0 /\ th[1].out = "value"

\* C17: a call of a scope='entity' function is a hit when another
\* scope='entity' function of the same entity type has computed the same
\* arguments within the TTL; two differently named functions of which one has
\* scope='function' never build the same key.
C17_EntityScopeShares ==
    LET c == th[1]
    IN  /\ (c.pc = "done" /\ c.op = "call" /\ c.f.scope = "entity"
              /\ \E g \in ScopeFuncs :
                    /\ g.name # c.f.name /\ g.scope = "entity" /\ g.entity = c.f.entity
                    /\ memo[<<g.name, c.a>>] >= 0
                    /\ c.expect = "first"
                    /\ now < memo[<<g.name, c.a>>] + EffectiveTtl(g)) =>
                ~c.invoked
        /\ \A f \in ScopeFuncs : \A g \in ScopeFuncs : \A a \in Args :
                (f.name # g.name /\ "function" \in {f.scope, g.scope}) =>
                    ConstructKey(f, a) # ConstructKey(g, a)

\* C20: a call made later than write time + TTL invokes the function and
\* returns its result, and its write stores the entry again for one TTL, the
\* TTL being the function's ttl, else the instance TTL, else 300.  The write
\* path of this call fails exactly when that of the computation before it
\* failed, in which case there was no cached entry to expire.
C20_ExpiredEntryRecomputed ==
    LET c   == th[1]
        ttl == IF c.f.ttl # 0 THEN c.f.ttl
               ELSE IF cfg.locked_ttl # 0 THEN cfg.locked_ttl ELSE 300
    IN  (c.pc = "done" /\ c.op = "call" /\ c.expect = "stale") =>
            /\ c.invoked
            /\ c.val = Body(c.f, c.a)
            /\ ~(c.tErr \/ c.wFail \/ c.xErr) =>
                  /\ ConstructKey(c.f, c.a) \in DOMAIN store.data
                  /\ ExpiresAt(store, ConstructKey(c.f, c.a)) = now + ttl

\* An entry under the instance TTL was recomputed and stored again.
C20_Witness ==
    /\ cfg.locked_ttl # 0
    /\ th[1].pc = "done" /\ th[1].op = "call" /\ th[1].expect = "stale" /\ th[1].invoked
    /\ ExpiresAt(store, ConstructKey(th[1].f, th[1].a)) = now + InstanceTtl

\* How often x occurs in a sequence.
Count(items, x) == Cardinality({i \in 1..Len(items) : items[i] = x})

SameElements(a, b) ==
    /\ Len(a) = Len(b)
    /\ \A i \in 1..Len(a) : Count(a, a[i]) = Count(b, a[i])

\* The values v and w are the same value up to the element order of a list,
\* tuple or set and the key order of a dict.
Permuted(v, w) ==
    /\ v.k = w.k
    /\ IF v.k \in {"list", "tuple", "set"} THEN SameElements(v.items, w.items)
       ELSE IF v.k = "dict"
       THEN {PairsOf(v.items)[i] : i \in 1..(Len(v.items) \div 2)}
            = {PairsOf(w.items)[i] : i \in 1..(Len(w.items) \div 2)}
       ELSE v = w

\* The same, taking a list, a tuple and a set of the same elements for one value.
Alike(v, w) ==
    IF v.k \in {"list", "tuple", "set"} /\ w.k \in {"list", "tuple", "set"}
    THEN SameElements(v.items, w.items)
    ELSE Permuted(v, w)

\* What Python binds in the call c of f: each positional argument to the
\* parameter at its position (the receiver to self), or to its place in
\* *args, and each keyword to its name.
Binding(f, c) ==
    {<<IF i <= Len(f.params) /\ f.params[i] # "args" THEN f.params[i] ELSE "*" \o IntStr(i),
       c.args[i]>> : i \in 1..Len(c.args)}
    \cup {<<c.kwargs[i].name, c.kwargs[i].val>> : i \in 1..Len(c.kwargs)}

C19_KeysAreInjective ==
    (/\ th[1].pc = "done" /\ th[2].pc = "done" /\ th[1].op = "key" /\ th[2].op = "key"
     /\ th[1].out = "value" /\ th[2].out = "value"
     /\ \/ Prefix(th[1].f) # Prefix(th[2].f)
        \/ \E b1 \in Binding(th[1].f, th[1].call) :
              \A b2 \in Binding(th[2].f, th[2].call) : ~(b1[1] = b2[1] /\ Alike(b1[2], b2[2]))
        \/ \E b2 \in Binding(th[2].f, th[2].call) :
              \A b1 \in Binding(th[1].f, th[1].call) : ~(b1[1] = b2[1] /\ Alike(b1[2], b2[2]))) =>
        th[1].key # th[2].key

\* What a rule makes of an item: "raised", "none", or the id it reads.
RuleOutcome(item, rule) ==
    IF rule.name \in DOMAIN item
    THEN (IF item[rule.name] = NoneId THEN "none" ELSE "id")
    ELSE (IF rule.kind = "callable" THEN "raised" ELSE "none")

\* The rules that produce an id of a supported type for the item.
Succeeds(item, rule) ==
    RuleOutcome(item, rule) = "id" /\ item[rule.name].ty \in SupportedIdTypes

\* The first rule that neither raised nor returned None, 0 when there is none.
FirstProducing(item, rules) ==
    LET S == {i \in 1..Len(rules) : RuleOutcome(item, rules[i]) = "id"}
    IN  IF S = {} THEN 0 ELSE CHOOSE i \in S : \A j \in S : i <= j

\* A composite id: the tuple of the ids of all rules.
CompositeId(item, rules) ==
    [ty |-> "tuple", parts |-> [i \in 1..Len(rules) |-> item[rules[i].name]]]

\* C22: under a list of rules, the id of an item for which every rule
\* produces an id is the tuple of all these ids, in rule order.
C22_CompositeRulesCollectAll ==
    LET c == th[1]
    IN  (/\ c.pc = "done" /\ c.op = "extract" /\ c.res.shape = "dict"
         /\ Len(c.f.id_key) = 2
         /\ \A i \in 1..2 : Succeeds(c.res.items[1], c.f.id_key[i])) =>
            (~c.xErr /\ c.ids = {CompositeId(c.res.items[1], c.f.id_key)})

C25_UnsupportedTypeAlwaysFails ==
    LET c == th[1]
    IN  (/\ c.pc = "done" /\ c.op = "extract"
         /\ \E n \in 1..Len(c.res.items) :
               LET k == FirstProducing(c.res.items[n], c.f.id_key)
               IN  k # 0 /\ c.res.items[n][c.f.id_key[k].name].ty \notin SupportedIdTypes) =>
            (c.xErr /\ c.out = "raised" /\ c.ids = {})

\* With fail_on_missing_id false, the list id of the second item failed the
\* extraction although the first item has a proper id.
C25_Witness ==
    /\ th[1].pc = "done" /\ th[1].op = "extract" /\ ~cfg.strict
    /\ th[1].res.shape = "list"
    /\ th[1].res.items = <<[user_id |-> IntId(1)], [user_id |-> ListId]>>
    /\ th[1].xErr /\ th[1].ids = {}

\* C26: with fail_on_missing_id true, a None returned by a rule that is
\* reached (every rule before it raised) fails the extraction; with
\* fail_on_missing_id false, and no id of an unsupported type, the extraction
\* returns the ids of exactly the items that have one.
C26_MissingIdRule ==
    LET c == th[1]
    IN  (c.pc = "done" /\ c.op = "extract") =>
            /\ (/\ cfg.strict
                /\ \E n \in 1..Len(c.res.items) : \E k \in 1..Len(c.f.id_key) :
                      /\ RuleOutcome(c.res.items[n], c.f.id_key[k]) = "none"
                      /\ \A j \in 1..(k - 1) :
                            RuleOutcome(c.res.items[n], c.f.id_key[j]) = "raised") =>
                  (c.xErr /\ c.out = "raised" /\ c.ids = {})
            /\ (/\ ~cfg.strict
                /\ \A n \in 1..Len(c.res.items) :
                      LET k == FirstProducing(c.res.items[n], c.f.id_key)
                      IN  k # 0 => Succeeds(c.res.items[n], c.f.id_key[k])) =>
                  /\ ~c.xErr
                  /\ c.ids = {c.res.items[n][c.f.id_key[FirstProducing(c.res.items[n],
                                                                         c.f.id_key)].name] :
                                n \in {m \in 1..Len(c.res.items) :
                                          FirstProducing(c.res.items[m], c.f.id_key) # 0}}

\* With fail_on_missing_id false, an item without an id is passed over and
\* the id of the other item is returned.
C26_Witness ==
    /\ th[1].pc = "done" /\ th[1].op = "extract" /\ ~cfg.strict
    /\ th[1].f.id_key = <<StrRule("user_id")>>
    /\ th[1].res.items = <<[name |-> NoneId], [user_id |-> IntId(2)]>>
    /\ ~th[1].xErr /\ th[1].ids = {IntId(2)}

\* The members of the indexes of a set of ids, and the index keys themselves.
IndexedUnder(s, entity, ids, t) ==
    UNION {BackendSmembers(cfg.backend, s, EntityKey(entity, id), t).m : id \in ids}

IndexKeys(entity, ids) == {EntityKey(entity, id) : id \in ids}

\* The ids the result of an updater carries.
UpdatedIds(g, a) ==
    LET its == ItemsOf(Body(g, a))
    IN  {its[i][g.id_key[1].name] : i \in 1..Len(its)} \ {NoneId}

C21_WitnessFailure ==
    /\ th[1].pc = "done" /\ th[1].op = "invalidates" /\ (th[1].gFail \/ th[1].wFail)
    /\ th[1].out = "value" /\ th[1].val = Body(th[1].f, th[1].a)

\* C23: while the rows of order a are cached, invalidate_entity with the
\* order key alone leaves the entry in place, and invalidate_entity with the
\* (order, product) tuple of one of the rows removes it; the index key of the
\* tuple is its parts joined by '-'.
C23_CompositeInvalidation ==
    [][(/\ th'[1].op = "inv" /\ th[1].pc = "idle"
        /\ \E a \in Args :
              /\ ConstructKey(F_items, a) \in DOMAIN LiveData(store, now)
              /\ th'[1].id \in {IntId(a)} \cup RefIds(F_items, a)) =>
          \A a \in Args :
              ConstructKey(F_items, a) \in DOMAIN LiveData(store, now) =>
                 /\ th'[1].id = IntId(a) =>
                        ConstructKey(F_items, a) \in DOMAIN LiveData(store', now)
                 /\ th'[1].id \in RefIds(F_items, a) =>
                        /\ ConstructKey(F_items, a) \notin DOMAIN store'.data
                        /\ EntityKey(F_items.entity, th'[1].id)
                              = <<"entity", "orderitem", JoinDash(th'[1].id.parts, 1)>>]_vars

\* C27: a call that finds bytes it cannot deserialize invokes the function,
\* returns its result, and leaves the freshly serialized result under the
\* key, which the next call reads as a hit.
C27_CorruptEntryRecached ==
    LET c == th[1]
        g == BackendGet(cfg.backend, store, ConstructKey(c.f, c.a), now)
    IN  (c.pc = "done" /\ c.op = "call" /\ c.cErr) =>
            /\ c.invoked /\ c.out = "value" /\ c.val = Body(c.f, c.a)
            /\ g.hit /\ ~DeserializeRaises(g.v) /\ Deserialize(g.v) = Body(c.f, c.a)

\* C28: a call of an entity-tracked function with a falsy result queues the
\* value write alone and runs it: the value is stored under the cache key
\* with the TTL, and no index is created, added to, or given another expiry.
C28_FalsyResultsNotIndexed ==
    [][(th[1].op = "call" /\ th[1].f \in FalsyFuncs /\ th[1].pc \in {"miss", "write"}) =>
          LET c   == th[1]
              key == ConstructKey(c.f, c.a)
          IN  /\ c.pc = "miss" =>
                    /\ th'[1].pc = "write"
                    /\ th'[1].cmds = <<SetexCmd(c.f, c.a, Body(c.f, c.a))>>
                    /\ store' = store
              /\ c.pc = "write" =>
                    /\ th'[1].pc = "done" /\ th'[1].val = Body(c.f, c.a)
                    /\ key \in DOMAIN store'.data
                    /\ store'.data[key] = Serialize(Body(c.f, c.a))
                    /\ ExpiresAt(store', key) = now + EffectiveTtl(c.f)
              /\ store'.sets = store.sets
              /\ \A k \in DOMAIN store.sets : ExpiresAt(store', k) = ExpiresAt(store, k)]_vars

\* A falsy result was stored while the index of the same id, holding the
\* very key, is in the backend; the following call of the function is a hit.
C28_Witness ==
    /\ th[1].pc = "done" /\ th[1].op = "call" /\ th[1].f = F_zero
    /\ ~th[1].invoked /\ th[1].val = IntResult(0)
    /\ ConstructKey(F_zero, 1) \in DOMAIN store.data
    /\ EntityKey("user", IntId(0)) \in DOMAIN store.sets

\* C29: with enabled=False a call of a wrapped function invokes the function
\* and hands back what it returns or raises, a function decorated with
\* invalidates hands back its result, and neither changes the backend.
C29_DisabledTouchesNothing ==
    [][(~cfg.enabled /\ th[1].pc = "idle" /\ th'[1].op \in {"call", "invalidates"}) =>
          /\ th'[1].pc = "done" /\ th'[1].invoked
          /\ IF Raises(th'[1].f) THEN th'[1].out = "raised"
             ELSE th'[1].out = "value" /\ th'[1].val = Body(th'[1].f, th'[1].a)
          /\ ~th'[1].gFail /\ ~th'[1].xErr /\ th'[1].ids = {}
          /\ store' = store]_vars

\* A disabled instance recomputed a call whose key holds a live entry, and
\* the entry and the index naming it are still in the backend.
C29_Witness ==
    /\ ~cfg.enabled
    /\ th[1].pc = "done" /\ th[1].op = "call" /\ th[1].f = F_get10 /\ th[1].a = 1
    /\ th[1].invoked /\ th[1].val = DictResult(IntId(1))
    /\ ConstructKey(F_get10, 1) \in DOMAIN LiveData(store, now)
    /\ store.data[ConstructKey(F_get10, 1)] = Serialize(IntResult(7))
    /\ EntityKey("user", IntId(1)) \in DOMAIN store.sets

\* A disabled instance ran an update of user 1 and the index of user 1 with
\* its member is still in the backend.
C29_WitnessInvalidates ==
    /\ ~cfg.enabled
    /\ th[1].pc = "done" /\ th[1].op = "invalidates" /\ th[1].f = U_update /\ th[1].a = 1
    /\ EntityKey("user", IntId(1)) \in DOMAIN store.sets
    /\ ConstructKey(F_get10, 1) \in DOMAIN LiveData(store, now)

\* The keys of a store, of either kind, and what a store holds under a key.
RawKeys(s) == (DOMAIN s.data) \cup (DOMAIN s.sets)

Holding(s, raw) ==
    [data |-> IF raw \in DOMAIN s.data THEN <<s.data[raw]>> ELSE <<>>,
     sets |-> IF raw \in DOMAIN s.sets THEN s.sets[raw] ELSE {},
     expires |-> IF raw \in DOMAIN s.expires THEN s.expires[raw] ELSE 0]

\* C30: an operation of a backend instance, direct or through its pipeline,
\* acts on prefix + key for every key it is given and on nothing else, in its
\* own store and in any other; a read answers from prefix + key, and keys('*')
\* lists the instance's own keys without the prefix.
C30_PrefixIsolation ==
    [][(ops' = ops + 1) =>
          LET c    == th'[1]
              pre  == PrefixOf(c.a)
              srv  == ServerOf(cfg.backend, c.a)
              own  == {PrefixKey(pre, c.key[i]) : i \in 1..Len(c.key)}
          IN  /\ \A sv \in Handles :
                    \A raw \in RawKeys(store[sv]) \cup RawKeys(store'[sv]) :
                       (sv # srv \/ raw \notin own) =>
                           Holding(store'[sv], raw) = Holding(store[sv], raw)
              /\ c.op = "delete" => \A raw \in own : raw \notin RawKeys(store'[srv])
              /\ c.op = "setex" =>
                    \A raw \in own : Holding(store'[srv], raw).data = <<Serialize(IntResult(c.a))>>
              /\ c.op = "sadd" => \A raw \in own : "m" \in Holding(store'[srv], raw).sets
              /\ c.op = "get" =>
                    \A raw \in own :
                       IF raw \in DOMAIN store[srv].data
                       THEN c.out = "value" /\ c.val = Deserialize(store[srv].data[raw])
                       ELSE c.out = "none"
              /\ c.op = "smembers" => \A raw \in own : c.members = Holding(store[srv], raw).sets
              /\ c.op = "keys" =>
                    c.members = {k \in PlainKeys :
                                    PrefixKey(pre, k) \in
                                       (IF cfg.backend = "memory" THEN DOMAIN store[srv].data
                                        ELSE RawKeys(store[srv]))}]_vars

\* The key's expiry time lies in the past (time.time() is beyond it).
Lapsed(s, k, t) == k \in DOMAIN s.expires /\ s.expires[k] < t

\* Neither a value nor set members can be read under the key.
Unreadable(s, k, t) == ~MemGet(s, k, t).hit /\ MemSmembers(s, k, t).m = {}

\* C38: in-memory backend: once a key's expiry time has passed, every
\* operation other than a set/setex/sadd of that key leaves the key absent (no
\* value and no members readable afterwards), and expire() on such a key
\* returns False as for a nonexistent key.
C38_ExpiredKeyStaysAbsent ==
    [][\A k \in BKeys :
          (Lapsed(store, k, now) /\ ~(th'[1].op \in {"set", "setex", "sadd"} /\ th'[1].key = k))
             => /\ Unreadable(store', k, now')
                /\ (th'[1].op = "expire" /\ th'[1].key = k) => th'[1].count = 0]_vars

\* C39: in-memory backend: while the observer holds a value written by a
\* set() without expiry (the key neither deleted nor given an expiry since),
\* a get of the key returns that value, whatever expiry an earlier write
\* attached to the key.
C39_SetWithoutExpiryPersists ==
    \A k \in BKeys :
       (th[1].op = "get" /\ th[1].key = k /\ memo[k] # NoBytes)
          => th[1].out = "value" /\ th[1].val = Deserialize(memo[k])

\* Thread u completes a backend operation (get, smembers or delete) in this step.
BackendStepOf(u) ==
    /\ th'[u] # th[u]
    /\ th'[u].op \in {"read", "delete"}
    /\ th'[u].pc \in {"got", "done"}

\* C31: in-memory backend: while a thread executes a pipeline batch it holds
\* the backend lock, no backend operation of another thread takes effect and
\* the store changes only by the commands of the batch; a reader that has
\* read the value a write-path batch stored finds the cache key in the index
\* that batch updates.
C31_BatchHoldsLock ==
    [][/\ \A t \in Threads :
             th[t].pc = "exec" =>
                /\ memo = t
                /\ \A u \in Threads \ {t} : ~BackendStepOf(u)
                /\ store' # store => th'[t].count = th[t].count + 1
       /\ \A u \in Threads :
             (th'[u].op = "read" /\ th'[u].pc = "done" /\ th'[u].out = "value")
                => ConstructKey(LockFunc, th'[u].a) \in th'[u].members]_vars

\* A batch is between its first and second command while the other thread
\* has read a value and the index.
C31_Witness ==
    \E t \in Threads : \E u \in Threads \ {t} :
       /\ th[t].pc = "exec" /\ th[t].count = 1 /\ Len(th[t].cmds) = 3
       /\ th[u].op = "read" /\ th[u].pc = "done" /\ th[u].out = "value"
       /\ th[u].a = th[t].a

\* The store after the first cut commands of the batch thread t has queued.
PrefixState(t, cut) == Execute(cfg.backend, store, th[t].cmds, now, cut).s

\* The index keys that hold the cache key in s1 and did not hold it in s0.
AddedTo(s0, s1, key) ==
    {ek \in DOMAIN s1.sets :
        key \in s1.sets[ek] /\ ~(ek \in DOMAIN s0.sets /\ key \in s0.sets[ek])}

\* C32: whenever a write-path batch is queued, for every prefix of its
\* commands (the batch cut short by a timeout or a failing command): if the
\* prefix adds the cache key to an entity index, the prefix has also written
\* the value of that cache key.
C32_ValueBeforeIndex ==
    \A t \in Threads :
       th[t].pc = "write" =>
          \A cut \in 0..Len(th[t].cmds) :
             AddedTo(store, PrefixState(t, cut), ConstructKey(th[t].f, th[t].a)) # {}
                => /\ ConstructKey(th[t].f, th[t].a) \in DOMAIN PrefixState(t, cut).data
                   /\ PrefixState(t, cut).data[ConstructKey(th[t].f, th[t].a)]
                         = Serialize(th[t].res)

\* A batch with the index commands of two ids is queued, and cutting it after
\* its third command leaves one index updated and the other not.
C32_Witness ==
    /\ th[1].pc = "write"
    /\ Len(th[1].cmds) = 5
    /\ Cardinality(AddedTo(store, PrefixState(1, 3), ConstructKey(th[1].f, th[1].a))) = 1
    /\ Cardinality(AddedTo(store, PrefixState(1, 5), ConstructKey(th[1].f, th[1].a))) = 2

\* C36: when two threads are inside a wrapped call of the same function with
\* the same arguments on a key that was not cached, at most one of them has
\* invoked the underlying function.
C36_ConcurrentCallersComputeOnce ==
    ~ /\ th[1].op = "call" /\ th[2].op = "call"
      /\ th[1].f = th[2].f /\ th[1].a = th[2].a
      /\ th[1].expect = "first" /\ th[2].expect = "first"
      /\ th[1].invoked /\ th[2].invoked

\* C34: whenever no operation is in flight (every wrapped call and every
\* invalidate_entity has finished), each stored entry of a function that
\* refers to (type, id) is a member of the index of (type, id), whatever the
\* interleaving of the invalidation's member read and delete batch with the
\* writers' batches was.
C34_SurvivorsStayIndexed ==
    (\A t \in Threads : th[t].pc \in {"idle", "done"}) =>
        \A f \in ConcFuncs : \A a \in Args :
            ConstructKey(f, a) \in DOMAIN store.data =>
                \A id \in ExtractEntityIds(Body(f, a), cfg.strict).ids :
                    ConstructKey(f, a)
                        \in BackendSmembers(cfg.backend, store, EntityKey(f.entity, id), now).m

\* What the wrapper of an instance with debug=False does with the answer of
\* backend.get: serve a decodable hit, else go on to the function call.
WithoutDebug(g) ==
    AfterGet(g.hit /\ BytesTruthy(g.v),
             g.v,
             g.hit /\ BytesTruthy(g.v) /\ DeserializeRaises(g.v))

\* C37: the debug flag changes only logging: a wrapped call, whatever the
\* debug flag of the instance, makes the hit-or-miss decision, returns the
\* value and leaves the backend state that the same call makes on an instance
\* with debug=False from the same state (so the function is invoked exactly as
\* often), on either reference backend.
C37_DebugOnlyLogs ==
    [][(th[1].pc = "idle" /\ th'[1].op = "call") =>
          /\ th'[1].pc
                = WithoutDebug(BackendGet(cfg.backend, store,
                                          ConstructKey(th'[1].f, th'[1].a), now)).pc
          /\ th'[1].out
                = WithoutDebug(BackendGet(cfg.backend, store,
                                          ConstructKey(th'[1].f, th'[1].a), now)).out
          /\ th'[1].val
                = WithoutDebug(BackendGet(cfg.backend, store,
                                          ConstructKey(th'[1].f, th'[1].a), now)).val
          /\ store' = BackendGet(cfg.backend, store, ConstructKey(th'[1].f, th'[1].a), now).s]_vars

\* Two values that are equal but for the order of the elements of their
\* containers, at any depth.
RECURSIVE SameButOrder(_, _)
SameButOrder(v, w) ==
    /\ v.k = w.k
    /\ Len(v.items) = Len(w.items)
    /\ IF v.k \in {"list", "tuple", "set"}
       THEN \E p \in Permutations(1..Len(v.items)) :
               \A i \in 1..Len(v.items) : SameButOrder(v.items[i], w.items[p[i]])
       ELSE IF v.k = "dict"
       THEN \E p \in Permutations(1..Len(PairsOf(v.items))) :
               \A i \in 1..Len(PairsOf(v.items)) :
                  /\ PairsOf(v.items)[i][1] = PairsOf(w.items)[p[i]][1]
                  /\ SameButOrder(PairsOf(v.items)[i][2], PairsOf(w.items)[p[i]][2])
       ELSE v = w

\* Two containers with the same elements (dict: the same keys) at the same
\* positions, the elements themselves equal but for the order inside them.
DifferInNestedOrder(v, w) ==
    /\ v.k = w.k
    /\ v.k \in {"list", "tuple", "set", "dict"}
    /\ Len(v.items) = Len(w.items)
    /\ \A i \in 1..Len(v.items) : SameButOrder(v.items[i], w.items[i])

\* C40: with normalize_args=True, two calls whose first arguments differ only
\* in the element order of a list, tuple or set nested inside a list, tuple,
\* set or dict get the same cache key.
C40_NestedOrderIgnored ==
    (/\ th[1].pc = "done" /\ th[2].pc = "done"
     /\ th[1].f.normalize /\ th[1].f = th[2].f
     /\ th[1].out = "value" /\ th[2].out = "value"
     /\ DifferInNestedOrder(th[1].call.args[1], th[2].call.args[1]))
        => th[1].key = th[2].key

\* C33: repeating an invalidation (invalidate_entity, invalidate_function,
\* invalidate_key, invalidate_all) immediately after it returned leaves the
\* backend state unchanged; a repeated count-returning call returns 0, and
\* invalidate_key returns True both times.
C33_InvalidationIdempotent ==
    [][(th[2].pc = "idle" /\ th'[2].pc = "done") =>
          /\ store' = store
          /\ th'[2].out = "value"
          /\ IF th'[2].op = "invkey"
             THEN th'[2].count = 1 /\ th[1].count = 1
             ELSE th'[2].count = 0]_vars

\* An invalidate_entity that evicted an entry has been repeated.
C33_Witness ==
    /\ th[1].pc = "done" /\ th[1].op = "inv" /\ th[1].count >= 1
    /\ th[2].pc = "done" /\ th[2].op = "inv" /\ th[2].id = th[1].id

\* The ids the stored value of a key refers to.
StoredIds(k) ==
    IdsOfResult(Deserialize(BackendGet(cfg.backend, store, k, now).v))

\* C35: every member of an entity index that currently has a stored value
\* is a key whose value refers to that entity, so invalidate_entity evicts
\* only entries whose current value refers to (type, id).
C35_IndexMembersReferEntity ==
    \A id \in InvIds :
       \A k \in BackendSmembers(cfg.backend, store, EntityKey(InvEntity, id), now).m :
          BackendGet(cfg.backend, store, k, now).hit => id \in StoredIds(k)

====
